---- MODULE Spec2Model ----
(***************************************************************************)
(* A model of the streaming XML tokenizer of src/src/parser.rs (Parser,    *)
(* its Iterator::next loop and its 18 character handlers) together with    *)
(* the byte source it reads from.                                          *)
(*                                                                         *)
(* Text is modelled as sequences of one-character strings, Option<T> as a  *)
(* sequence of length 0 (None) or 1 (Some), a HashMap as a function.       *)
(***************************************************************************)
EXTENDS Integers, Sequences, FiniteSets, TLC

VARIABLES
    \* ---- fields of struct Parser (parser.rs 150-161)
    line, col, has_error, buf, namespaces, attributes, st, name, attr, delim, level,
    \* ---- the byte source `data: R` (parser.rs 153): the family of inputs it
    \* delivers, the bytes of the chunk being delivered, the chunks delivered,
    \* and whether it has reported its end
    lang, mode, pending, fed, eof,
    \* ---- Iterator::next (parser.rs 204-241): position in the call, the
    \* value last returned, the byte last read (the local `c`)
    pc, out, c,
    \* ---- history of the run, recorded for the properties
    via, consumed, newlines, sinceNl, nStart, nEnd, nCloseTags, lastStart, events,
    nErr, nReadErr, extra, tagName, tagAttrs, raw,
    \* ---- the tree whose rendering is being read ("rendered"), else None
    tree1,
    \* ---- a caller of the Element API (element.rs): the Element it owns, the
    \* ChildElements iterator it holds, the items that iterator has returned,
    \* the iterations it has run to their end, and the text to_string gave it
    element, iter, yielded, done, shown

parserVars == <<line, col, has_error, buf, namespaces, attributes, st, name, attr, delim, level>>
sourceVars == <<lang, mode, pending, fed, eof>>
callVars   == <<pc, out, c>>
histVars   == <<via, consumed, newlines, sinceNl, nStart, nEnd, nCloseTags, lastStart, events,
                nErr, nReadErr, extra, tagName, tagAttrs, raw>>
elementVars == <<element, iter, yielded, done, shown>>
vars == <<parserVars, sourceVars, callVars, histVars, tree1, elementVars>>

-----------------------------------------------------------------------------
(* Option<T> *)
None == <<>>
Some(v) == <<v>>
IsSome(o) == o # None
Unwrap(o) == o[1]

(* Bounds of the model *)
MaxChunks == 5
MaxBytes == 4
MaxMarkup == 4
MaxExtraPulls == 1
MaxRuns == 4
MaxDocs == 5
MaxChildren == 3

(* "http://www.w3.org/XML/1998/namespace" and "http://www.w3.org/2000/xmlns/" *)
XmlNsUri ==
    <<"h","t","t","p",":","/","/","w","w","w",".","w","3",".","o","r","g","/",
      "X","M","L","/","1","9","9","8","/","n","a","m","e","s","p","a","c","e">>
XmlnsNsUri ==
    <<"h","t","t","p",":","/","/","w","w","w",".","w","3",".","o","r","g","/",
      "2","0","0","0","/","x","m","l","n","s","/">>
XmlStr == <<"x","m","l">>
XmlnsStr == <<"x","m","l","n","s">>

WS == {" ", "\t", "\r", "\n"}
CDATA_PATTERN == <<"C", "D", "A", "T", "A", "[">>
DOCTYPE_PATTERN == <<"O", "C", "T", "Y", "P", "E">>

EmptyMap == <<>>

-----------------------------------------------------------------------------
(* Pure functions *)

\* parse_qname (parser.rs 246-254): split at the first ':'
parse_qname(qname) ==
    LET colons == {i \in 1..Len(qname) : qname[i] = ":"}
    IN  IF colons = {} THEN <<None, qname>>
        ELSE LET i == CHOOSE j \in colons : \A k \in colons : j <= k
             IN  <<Some(SubSeq(qname, 1, i - 1)), SubSeq(qname, i + 1, Len(qname))>>

\* Result<String, String>
Ok(v) == [ok |-> TRUE, val |-> v]
Err(v) == [ok |-> FALSE, val |-> v]

\* The five predefined entities of crate::unescape
Entities ==
    (<<"l","t">> :> "<") @@ (<<"g","t">> :> ">") @@ (<<"a","m","p">> :> "&") @@
    (<<"a","p","o","s">> :> "'") @@ (<<"q","u","o","t">> :> "\"")

\* crate::unescape: every '&' must start a recognised entity ended by ';'.
\* Numeric character references need '#', which no modelled input contains.
RECURSIVE unescape(_)
unescape(input) ==
    IF input = <<>> THEN Ok(<<>>)
    ELSE IF Head(input) # "&"
    THEN LET rest == unescape(Tail(input))
         IN  IF rest.ok THEN Ok(<<Head(input)>> \o rest.val) ELSE rest
    ELSE LET semis == {i \in 2..Len(input) : input[i] = ";"}
         IN  IF semis = {} THEN Err(input)
             ELSE LET i == CHOOSE j \in semis : \A k \in semis : j <= k
                      ent == SubSeq(input, 2, i - 1)
                      rest == unescape(SubSeq(input, i + 1, Len(input)))
                  IN  IF ent \notin DOMAIN Entities THEN Err(ent)
                      ELSE IF rest.ok THEN Ok(<<Entities[ent]>> \o rest.val) ELSE rest

\* unescape_owned (parser.rs 256-262): no '&' means the input is returned as is
unescape_owned(input) ==
    IF \A i \in 1..Len(input) : input[i] # "&" THEN Ok(input) ELSE unescape(input)

\* A variant of namespace_for_prefix without the `namespace.is_empty()` test
namespace_for_prefix_keep_empty(nss, prefix) ==
    LET holders == {i \in 1..Len(nss) : prefix \in DOMAIN nss[i]}
    IN  IF holders = {} THEN None
        ELSE LET top == CHOOSE i \in holders : \A j \in holders : j <= i
             IN  Some(nss[top][prefix])

\* A variant of namespace_for_prefix in which the outermost frame holding the
\* prefix decides
namespace_for_prefix_outermost(nss, prefix) ==
    LET holders == {i \in 1..Len(nss) : prefix \in DOMAIN nss[i]}
    IN  IF holders = {} THEN None
        ELSE LET bottom == CHOOSE i \in holders : \A j \in holders : i <= j
             IN  IF nss[bottom][prefix] = <<>> THEN None ELSE Some(nss[bottom][prefix])

\* Parser::namespace_for_prefix (parser.rs 271-281) on the stack nss: the
\* innermost frame holding the prefix decides; an empty URI gives None
namespace_for_prefix(nss, prefix) ==
    LET holders == {i \in 1..Len(nss) : prefix \in DOMAIN nss[i]}
    IN  IF holders = {} THEN None
        ELSE LET top == CHOOSE i \in holders : \A j \in holders : j <= i
             IN  IF nss[top][prefix] = <<>> THEN None ELSE Some(nss[top][prefix])

\* A variant of ResolveTagName that resolves below the innermost frame
ResolveTagNameOuter(nss, prefix) ==
    LET below == IF nss = <<>> THEN nss ELSE SubSeq(nss, 1, Len(nss) - 1)
    IN  IF prefix = None THEN Ok(namespace_for_prefix(below, <<>>))
        ELSE LET ns == namespace_for_prefix(below, Unwrap(prefix))
             IN  IF ns = None THEN Err(None) ELSE Ok(ns)

\* A variant of ResolveTagName that lets an unbound prefix pass with no namespace
ResolveTagNameLenient(nss, prefix) ==
    IF prefix = None THEN Ok(namespace_for_prefix(nss, <<>>))
    ELSE Ok(namespace_for_prefix(nss, Unwrap(prefix)))

\* The `let ns = match prefix { ... }` block of in_tag_name, in_close_tag_name,
\* in_tag and expect_close: the namespace of a tag name, or the failure
\* UnboundNsPrefixInTagName (ok = FALSE)
ResolveTagName(nss, prefix) ==
    IF prefix = None THEN Ok(namespace_for_prefix(nss, <<>>))
    ELSE LET ns == namespace_for_prefix(nss, Unwrap(prefix))
         IN  IF ns = None THEN Err(None) ELSE Ok(ns)

\* A variant of ResolveAttributes that keys the map by the raw prefix
RECURSIVE ResolveAttributesByPrefix(_, _, _, _)
ResolveAttributesByPrefix(nss, attrs, i, m) ==
    IF i > Len(attrs) THEN [ok |-> TRUE, val |-> m, err |-> "none"]
    ELSE LET a == attrs[i]
             ns == IF a[2] = None THEN None ELSE namespace_for_prefix(nss, Unwrap(a[2]))
             key == <<a[1], a[2]>>
         IN  IF a[2] # None /\ ns = None
             THEN [ok |-> FALSE, val |-> m, err |-> "UnboundNsPrefixInAttributeName"]
             ELSE IF key \in DOMAIN m
             THEN [ok |-> FALSE, val |-> m, err |-> "DuplicateAttribute"]
             ELSE ResolveAttributesByPrefix(nss, attrs, i + 1, m @@ (key :> a[3]))

\* The frame of a tag after the first i of its raw attributes
RECURSIVE DeclaredUpTo(_, _)
DeclaredUpTo(attrs, i) ==
    IF i = 0 THEN EmptyMap
    ELSE LET a == attrs[i]
             before == DeclaredUpTo(attrs, i - 1)
         IN  IF a[2] = None /\ a[1] = XmlnsStr THEN (<<>> :> a[3]) @@ before
             ELSE IF a[2] = Some(XmlnsStr) THEN (a[1] :> a[3]) @@ before
             ELSE before

\* A variant of ResolveAttributes that resolves each attribute against the
\* declarations standing before it in the tag
RECURSIVE ResolveAttributesEager(_, _, _, _)
ResolveAttributesEager(nss, attrs, i, m) ==
    IF i > Len(attrs) THEN [ok |-> TRUE, val |-> m, err |-> "none"]
    ELSE LET a == attrs[i]
             seen == Append(SubSeq(nss, 1, Len(nss) - 1), DeclaredUpTo(attrs, i))
             ns == IF a[2] = None THEN None ELSE namespace_for_prefix(seen, Unwrap(a[2]))
             key == <<a[1], ns>>
         IN  IF a[2] # None /\ ns = None
             THEN [ok |-> FALSE, val |-> m, err |-> "UnboundNsPrefixInAttributeName"]
             ELSE IF key \in DOMAIN m
             THEN [ok |-> FALSE, val |-> m, err |-> "DuplicateAttribute"]
             ELSE ResolveAttributesEager(nss, attrs, i + 1, m @@ (key :> a[3]))

\* The attribute loop of in_tag (parser.rs 468-485) over the raw attributes
\* attrs[i..], inserting into the map m: the finished map, or the first error
RECURSIVE ResolveAttributes(_, _, _, _)
ResolveAttributes(nss, attrs, i, m) ==
    IF i > Len(attrs) THEN [ok |-> TRUE, val |-> m, err |-> "none"]
    ELSE LET a == attrs[i]       \* (name, prefix, value)
             ns == IF a[2] = None THEN None ELSE namespace_for_prefix(nss, Unwrap(a[2]))
             key == <<a[1], ns>>
         IN  IF a[2] # None /\ ns = None
             THEN [ok |-> FALSE, val |-> m, err |-> "UnboundNsPrefixInAttributeName"]
             ELSE IF key \in DOMAIN m
             THEN [ok |-> FALSE, val |-> m, err |-> "DuplicateAttribute"]
             ELSE ResolveAttributes(nss, attrs, i + 1, m @@ (key :> a[3]))

\* Events (parser.rs 24-37) and the results of next()
ElementStart(n, ns, prefix, attrs) ==
    [type |-> "ElementStart", name |-> n, ns |-> ns, prefix |-> prefix, attributes |-> attrs]
ElementEnd(n, ns, prefix) == [type |-> "ElementEnd", name |-> n, ns |-> ns, prefix |-> prefix]
Characters(t) == [type |-> "Characters", text |-> t]
PI(t) == [type |-> "PI", text |-> t]
CDATA(t) == [type |-> "CDATA", text |-> t]
Comment(t) == [type |-> "Comment", text |-> t]

Unset == [kind |-> "Unset"]
NoneRes == [kind |-> "None"]
OkRes(event) == [kind |-> "Ok", event |-> event]
ErrRes(l, k, kind) == [kind |-> "Err", line |-> l, col |-> k, err |-> kind]

-----------------------------------------------------------------------------
(* The element tree: ElementBuilder (element_builder.rs) as the              *)
(* specification describes it, Element and its rendering (element.rs)        *)

\* The seed of Element::prefixes (element.rs 143-151): namespace URI to prefix
SeedPrefixes == (XmlNsUri :> XmlStr) @@ (XmlnsNsUri :> XmlnsStr)

\* The keys of an attribute map in the order the map iterates them; rev is
\* the other order (AttrMap is a HashMap unless the crate is built with
\* ordered_attrs: the order of iteration differs between builds)
RECURSIVE Enumerate(_)
Enumerate(S) ==
    IF S = {} THEN <<>>
    ELSE LET x == CHOOSE y \in S : TRUE IN <<x>> \o Enumerate(S \ {x})
Reverse(q) == [i \in 1..Len(q) |-> q[Len(q) + 1 - i]]
Keys(m, rev) == IF rev THEN Reverse(Enumerate(DOMAIN m)) ELSE Enumerate(DOMAIN m)

\* The prefixes an element introduces: one entry URI -> prefix for each
\* attribute xmlns:prefix='URI', a later one replacing an earlier one
RECURSIVE DeclaredPrefixes(_, _, _, _)
DeclaredPrefixes(attrs, keys, i, m) ==
    IF i > Len(keys) THEN m
    ELSE LET k == keys[i]
         IN  IF k[2] = Some(XmlnsNsUri)
             THEN DeclaredPrefixes(attrs, keys, i + 1, (attrs[k] :> k[1]) @@ m)
             ELSE DeclaredPrefixes(attrs, keys, i + 1, m)

\* The Element pushed for an ElementStart event under the default namespace
\* inherited from the enclosing element
NewElement(e, inherited, rev) ==
    LET dkey == <<XmlnsStr, None>>
    IN  [name |-> e.name, ns |-> e.ns, attributes |-> e.attributes, children |-> <<>>,
         prefixes |-> DeclaredPrefixes(e.attributes, Keys(e.attributes, rev), 1, SeedPrefixes),
         default_ns |-> IF dkey \in DOMAIN e.attributes
                        THEN (IF e.attributes[dkey] = <<>> THEN None
                              ELSE Some(e.attributes[dkey]))
                        ELSE inherited]

ElementNode(elem) == [node |-> "Element", elem |-> elem]
ContentNode(e) == [node |-> e.type, text |-> e.text]

\* v with its last element replaced by x
ReplaceLast(v, x) == [v EXCEPT ![Len(v)] = x]
AddChild(stack, child) ==
    ReplaceLast(stack, [stack[Len(stack)] EXCEPT !.children = Append(@, child)])

\* ElementBuilder::handle_event on the stack of elements under construction:
\* "None" (carry on with the new stack), "Ok" (the root is complete) or "Err"
handle_event(stack, e, rev) ==
    CASE e.type = "ElementStart" ->
            [kind |-> "None",
             stack |-> Append(stack, NewElement(e, IF stack = <<>> THEN None
                                                   ELSE stack[Len(stack)].default_ns, rev))]
      [] e.type = "ElementEnd" ->
            IF stack = <<>> THEN [kind |-> "Err", err |-> "NoElement"]
            ELSE LET elem == stack[Len(stack)]
                     rest == SubSeq(stack, 1, Len(stack) - 1)
                 IN  IF elem.name # e.name \/ elem.ns # e.ns
                     THEN [kind |-> "Err", err |-> "MismatchedTag"]
                     ELSE IF rest = <<>> THEN [kind |-> "Ok", elem |-> elem]
                     ELSE [kind |-> "None", stack |-> AddChild(rest, ElementNode(elem))]
      [] OTHER ->
            IF stack = <<>> THEN [kind |-> "None", stack |-> stack]
            ELSE [kind |-> "None", stack |-> AddChild(stack, ContentNode(e))]

\* `p.find_map(|x| e.handle_event(x))` (element.rs 275) over the events evs
\* from the i-th on: the first result that is not None, and where it arose
RECURSIVE FindMap(_, _, _, _)
FindMap(evs, i, stack, rev) ==
    IF i > Len(evs) THEN [kind |-> "None", stack |-> stack, at |-> 0]
    ELSE LET r == handle_event(stack, evs[i], rev)
         IN  IF r.kind = "None" THEN FindMap(evs, i + 1, r.stack, rev)
             ELSE IF r.kind = "Ok" THEN [kind |-> "Ok", elem |-> r.elem, at |-> i]
             ELSE [kind |-> "Err", err |-> r.err, at |-> i]

\* crate::escape: the five characters & < > ' " as entities
RECURSIVE escape(_)
escape(t) ==
    IF t = <<>> THEN <<>>
    ELSE LET h == Head(t)
             e == CASE h = "&" -> <<"&", "a", "m", "p", ";">>
                    [] h = "<" -> <<"&", "l", "t", ";">>
                    [] h = ">" -> <<"&", "g", "t", ";">>
                    [] h = "'" -> <<"&", "a", "p", "o", "s", ";">>
                    [] h = "\"" -> <<"&", "q", "u", "o", "t", ";">>
                    [] OTHER -> <<h>>
         IN  e \o escape(Tail(t))

\* Display of a child that is no element (crate::Xml)
fmt_content(n) ==
    CASE n.node = "Characters" -> escape(n.text)
      [] n.node = "CDATA" -> <<"<", "!", "[", "C", "D", "A", "T", "A", "[">> \o n.text \o <<"]", "]", ">">>
      [] n.node = "Comment" -> <<"<", "!", "-", "-">> \o n.text \o <<"-", "-", ">">>
      [] n.node = "PI" -> <<"<", "?">> \o n.text \o <<"?", ">">>

\* Results of writing: the text written, or the abort of a failed `expect`
Written(t) == [ok |-> TRUE, text |-> t]
Aborted == [ok |-> FALSE, text |-> <<>>]
Then(a, b) == IF a.ok /\ b.ok THEN Written(a.text \o b.text) ELSE Aborted
OptStr(o) == IF o = None THEN <<>> ELSE Unwrap(o)

\* element.rs 45-53: the name token of the opening tag, prefixed or bare
fmt_name(elem, all) ==
    IF elem.ns # elem.default_ns
    THEN IF OptStr(elem.ns) \in DOMAIN all
         THEN Written(all[OptStr(elem.ns)] \o <<":">> \o elem.name)
         ELSE Aborted
    ELSE Written(elem.name)

\* A variant of fmt_close_name that never writes a prefix
fmt_close_name_bare(elem, all) == Written(elem.name)

\* element.rs 91-99: the name token of the closing tag; `elem.ns.unwrap()`
\* aborts when the element has no namespace
fmt_close_name(elem, all) ==
    IF elem.ns # elem.default_ns
    THEN IF elem.ns # None /\ Unwrap(elem.ns) \in DOMAIN all
         THEN Written(all[Unwrap(elem.ns)] \o <<":">> \o elem.name)
         ELSE Aborted
    ELSE Written(elem.name)

\* element.rs 56-71: the generated xmlns declaration; parent is an Option
fmt_default_ns(elem, parent) ==
    IF \E k \in DOMAIN elem.attributes : k[1] = XmlnsStr THEN <<>>
    ELSE IF parent = None /\ elem.default_ns # None
    THEN <<" ">> \o XmlnsStr \o <<"=", "'">> \o Unwrap(elem.default_ns) \o <<"'">>
    ELSE IF parent # None /\ Unwrap(parent).default_ns # elem.default_ns
    THEN <<" ">> \o XmlnsStr \o <<"=", "'">> \o OptStr(elem.default_ns) \o <<"'">>
    ELSE <<>>

\* element.rs 73-81: the attributes, in the order the map iterates them
RECURSIVE fmt_attrs(_, _, _, _)
fmt_attrs(attrs, keys, i, all) ==
    IF i > Len(keys) THEN Written(<<>>)
    ELSE LET k == keys[i]
             one == IF k[2] = None
                    THEN Written(<<" ">> \o k[1] \o <<"=", "'">> \o escape(attrs[k]) \o <<"'">>)
                    ELSE IF Unwrap(k[2]) \in DOMAIN all
                    THEN Written(<<" ">> \o all[Unwrap(k[2])] \o <<":">> \o k[1]
                                 \o <<"=", "'">> \o escape(attrs[k]) \o <<"'">>)
                    ELSE Aborted
         IN  Then(one, fmt_attrs(attrs, keys, i + 1, all))

\* fmt_elem (element.rs 37-104)
RECURSIVE fmt_elem(_, _, _, _)
RECURSIVE fmt_children(_, _, _, _, _)
fmt_children(elem, i, all, rev, acc) ==
    IF i > Len(elem.children) THEN acc
    ELSE LET n == elem.children[i]
             one == IF n.node = "Element" THEN fmt_elem(n.elem, Some(elem), all, rev)
                    ELSE Written(fmt_content(n))
         IN  fmt_children(elem, i + 1, all, rev, Then(acc, one))

fmt_elem(elem, parent, all_prefixes, rev) ==
    LET all == elem.prefixes @@ all_prefixes
        open == Then(Then(Then(Written(<<"<">>), fmt_name(elem, all)),
                          Written(fmt_default_ns(elem, parent))),
                     fmt_attrs(elem.attributes, Keys(elem.attributes, rev), 1, all))
    IN  IF elem.children = <<>> THEN Then(open, Written(<<"/", ">">>))
        ELSE Then(Then(Then(open, Written(<<">">>)),
                       fmt_children(elem, 1, all, rev, Written(<<>>))),
                  Then(Then(Written(<<"<", "/">>), fmt_close_name(elem, all)), Written(<<">">>)))

\* Display for Element (element.rs 106-110)
to_string(elem, rev) == fmt_elem(elem, None, EmptyMap, rev)

\* Element::new (element.rs 138-165): the namespace is also the default one
ElementNew(n, ns, attrs) ==
    [name |-> n, ns |-> ns, attributes |-> attrs, children |-> <<>>,
     prefixes |-> SeedPrefixes, default_ns |-> ns]

\* Element::set_attribute (element.rs 190-197): attributes.insert
set_attribute(e, n, ns, value) ==
    [e EXCEPT !.attributes = (<<n, ns>> :> value) @@ @]

\* Element::tag_stay and Element::text (element.rs 236-246): children.push
tag_stay(e, child) == [e EXCEPT !.children = Append(@, ElementNode(child))]
text(e, t) == [e EXCEPT !.children = Append(@, ContentNode(Characters(t)))]

\* Element::get_children (element.rs 214-224): an iterator over the children
\* from the first on, with the name and namespace asked for
get_children(e, n, ns) == [elems |-> e.children, name |-> n, ns |-> ns]

\* A variant of ChildElementsNext that compares the name only
RECURSIVE ChildElementsNextAnyNs(_)
ChildElementsNextAnyNs(it) ==
    IF it.elems = <<>> THEN [item |-> None, iter |-> it]
    ELSE LET child == Head(it.elems)
             rest == [it EXCEPT !.elems = Tail(@)]
         IN  IF child.node = "Element" /\ it.name = child.elem.name
             THEN [item |-> Some(child.elem), iter |-> rest]
             ELSE ChildElementsNextAnyNs(rest)

\* ChildElements::next (element.rs 119-133): find_map over the rest of the
\* slice; the item found, if any, and the iterator after it
RECURSIVE ChildElementsNext(_)
ChildElementsNext(it) ==
    IF it.elems = <<>> THEN [item |-> None, iter |-> it]
    ELSE LET child == Head(it.elems)
             rest == [it EXCEPT !.elems = Tail(@)]
         IN  IF child.node = "Element" /\ it.name = child.elem.name /\ it.ns = child.elem.ns
             THEN [item |-> Some(child.elem), iter |-> rest]
             ELSE ChildElementsNext(rest)

\* Element::get_child (element.rs 208-210)
get_child(e, n, ns) == ChildElementsNext(get_children(e, n, ns)).item

-----------------------------------------------------------------------------
(* The byte source.  It delivers its input chunk by chunk, one byte per     *)
(* read; which chunk comes next depends on what the source has delivered   *)
(* so far, never on the parser.  Four families of inputs:                  *)
(*   "bytes"   every string of at most MaxBytes bytes of ByteAlphabet;     *)
(*   "tags"    at most MaxChunks chunks of the shape                       *)
(*             (outer | open attr* close)*;                                *)
(*   "markup"  at most MaxMarkup chunks of MarkupChunks, in any order;     *)
(*   "runs"    at most MaxRuns chunks of RunChunks, in any order: CDATA    *)
(*             sections with runs of ']' as long as a u8 can count;        *)
(*   "docs"    at most MaxDocs chunks of DocChunks, a start tag first.     *)
(* A sixth input, "rendered", is the text Element::to_string wrote for the *)
(* tree of a document of "docs"; it is read to its end.                    *)
(* The source may end at any chunk boundary, and a read may fail anywhere. *)

Attr(qname, value) == <<" ">> \o qname \o <<"=", "'">> \o value \o <<"'">>

ByteAlphabet == {"<", ">", "/", "a", ":", " ", "\n", "=", "'", "!", "-", "&"}

OpenChunks == { <<"<", "a">>, <<"<", "p", ":", "a">>, <<"<", "/", "p", ":", "a">> }
CloseChunks == { <<">">>, <<"/", ">">> }
\* <a xmlns:p='u' xmlns='u'>, an enclosing element that binds p and the default
OuterChunk ==
    <<"<", "a">> \o Attr(XmlnsStr \o <<":", "p">>, <<"u">>) \o Attr(XmlnsStr, <<"u">>) \o <<">">>
AttrChunks ==
    { Attr(<<"x">>, <<"1">>),
      Attr(<<"p", ":", "x">>, <<"1">>),
      Attr(XmlnsStr \o <<":", "p">>, <<"u">>),
      Attr(XmlnsStr \o <<":", "p">>, <<>>),
      Attr(XmlnsStr \o <<":", "q">>, <<"u">>) \o Attr(<<"q", ":", "x">>, <<"1">>),
      Attr(XmlnsStr, <<"u">>),
      Attr(XmlnsStr, <<>>) }

MarkupChunks ==
    { <<"<", "?">>, <<"?">>, <<"<", "!", "[", "C", "D", "A", "T", "A", "[">>, <<"]">>,
      <<"<", "!", "-", "-">>, <<"-">>, <<"<", "!", "D", "O", "C", "T", "Y", "P", "E", " ">>,
      <<"t">>, <<">">>,
      <<"<", "!", "D", "O", "C", "T", "Y", "P", "E">>, <<"]", "]">>, <<"-", "-">>,
      <<"&", "l", "t", ";">> }

\* U8Max times ']'
LongRun == [i \in 1..255 |-> "]"]
RunChunks == { <<"<", "!", "[", "C", "D", "A", "T", "A", "[">>, LongRun, <<"]">>, <<">">> }

\* Whole tags and text of small documents: <a xmlns:q='u'>, <q:a xmlns:q='v'/>,
\* <a xmlns:p='u'>, <a xmlns:p='v' q:x='1'/>, </a> and the text t
DocChunks ==
    { <<"<", "a">> \o Attr(XmlnsStr \o <<":", "q">>, <<"u">>) \o <<">">>,
      <<"<", "q", ":", "a">> \o Attr(XmlnsStr \o <<":", "q">>, <<"v">>) \o <<"/", ">">>,
      <<"<", "a">> \o Attr(XmlnsStr \o <<":", "p">>, <<"u">>) \o <<">">>,
      <<"<", "a">> \o Attr(XmlnsStr \o <<":", "p">>, <<"v">>) \o Attr(<<"q", ":", "x">>, <<"1">>)
          \o <<"/", ">">>,
      <<"<", "/", "a", ">">>,
      <<"t">> }

Families == {"bytes", "tags", "markup", "runs", "docs"}

Menu(family, where) ==
    CASE family = "bytes" -> {<<b>> : b \in ByteAlphabet}
      [] family = "tags" -> IF where = "tag" THEN AttrChunks \cup CloseChunks
                            ELSE OpenChunks \cup {OuterChunk}
      [] family = "markup" -> MarkupChunks
      [] family = "runs" -> RunChunks
      [] family = "docs" -> IF where = "content"
                            THEN {d \in DocChunks : d[1] = "<" /\ d[2] # "/"}
                            ELSE DocChunks
      [] family = "rendered" -> {}

Budget(family) ==
    CASE family = "bytes" -> MaxBytes
      [] family = "tags" -> MaxChunks
      [] family = "markup" -> MaxMarkup
      [] family = "runs" -> MaxRuns
      [] family = "docs" -> MaxDocs
      [] family = "rendered" -> 0

\* Where the source is in its document after delivering the chunk
After(chunk, where) ==
    IF chunk \in OpenChunks THEN "tag" ELSE IF chunk \in CloseChunks THEN "content"
    ELSE IF chunk \in DocChunks \ MarkupChunks THEN "root" ELSE where

\* What the next read can deliver: the rest of the chunk under way, else any
\* chunk the family allows here while the input may still grow
Avail ==
    IF pending # <<>> THEN {pending}
    ELSE IF eof \/ fed >= Budget(lang) THEN {}
    ELSE Menu(lang, mode)

-----------------------------------------------------------------------------
(* Iterator::next (parser.rs 204-241) *)

Init ==
    \* Parser::new (parser.rs 169-195)
    /\ line = 1 /\ col = 0 /\ has_error = FALSE
    /\ buf = <<>>
    /\ namespaces = << (XmlStr :> XmlNsUri) @@ (XmlnsStr :> XmlnsNsUri) >>
    /\ attributes = <<>>
    /\ st = "OutsideTag"
    /\ name = None /\ attr = None /\ delim = None
    /\ level = 0
    \* the source
    /\ lang \in Families /\ mode = "content" /\ pending = <<>> /\ fed = 0 /\ eof = FALSE
    \* no call made yet
    /\ pc = "idle" /\ out = Unset /\ c = ""
    /\ via = "" /\ consumed = 0 /\ newlines = 0 /\ sinceNl = 0
    /\ nStart = 0 /\ nEnd = 0 /\ nCloseTags = 0 /\ lastStart = None /\ events = <<>>
    /\ nErr = 0 /\ nReadErr = 0 /\ extra = 0 /\ tagName = None /\ tagAttrs = <<>>
    /\ raw = <<>>
    /\ tree1 = None
    \* no Element is in the caller's hands
    /\ element = None /\ iter = None /\ yielded = <<>> /\ done = None /\ shown = None

\* `if self.has_error { return None; }` (parser.rs 205-207), else enter the loop.
\* Calls made after the sequence has ended are counted in extra.
Call ==
    /\ pc = "idle"
    /\ out.kind \in {"None", "Err"} => extra < MaxExtraPulls
    /\ extra' = IF out.kind \in {"None", "Err"} THEN extra + 1 ELSE extra
    /\ IF has_error
       THEN pc' = "idle" /\ out' = NoneRes /\ via' = "has_error"
       ELSE pc' = "loop" /\ UNCHANGED <<out, via>>
    /\ UNCHANGED <<parserVars, sourceVars, tree1, elementVars, c, consumed, newlines, sinceNl, nStart, nEnd,
                   nCloseTags, lastStart, events, nErr, nReadErr, tagName, tagAttrs, raw>>

\* A variant of ReadEof that hands out the pending text when the source ends
ReadEofFlushes ==
    /\ pc = "loop" /\ pending = <<>>
    /\ eof' = TRUE
    /\ pc' = "idle" /\ via' = "eof"
    /\ IF st = "OutsideTag" /\ buf # <<>> /\ ~eof
       THEN out' = OkRes(Characters(buf)) /\ events' = Append(events, Characters(buf))
            /\ buf' = <<>>
       ELSE out' = NoneRes /\ UNCHANGED <<events, buf>>
    /\ UNCHANGED <<line, col, has_error, namespaces, attributes, st, name, attr, delim, level,
                   lang, mode, pending, fed, tree1, elementVars, c, consumed, newlines, sinceNl, nStart,
                   nEnd, nCloseTags, lastStart, nErr, nReadErr, extra, tagName, tagAttrs, raw>>

\* `Ok(0) => return None` (parser.rs 211): the source has no more bytes
ReadEof ==
    /\ pc = "loop" /\ pending = <<>>
    /\ eof' = TRUE
    /\ pc' = "idle" /\ out' = NoneRes /\ via' = "eof"
    /\ UNCHANGED <<parserVars, lang, mode, pending, fed, tree1, elementVars, c, consumed, newlines, sinceNl, nStart,
                   nEnd, nCloseTags, lastStart, events, nErr, nReadErr, extra, tagName, tagAttrs, raw>>

\* A variant of OnReadError that counts the failed read as a consumed column
OnReadErrorAdvanced ==
    /\ has_error' = TRUE
    /\ out' = ErrRes(line, col + 1, "MalformedXml")
    /\ col' = col + 1 /\ UNCHANGED line

\* `Err(_) => { ... }` (parser.rs 212-219): what next() does when the read fails
OnReadError ==
    /\ has_error' = TRUE
    /\ out' = ErrRes(line, col, "MalformedXml")
    /\ UNCHANGED <<line, col>>

\* A read of the source fails (any state, any position of the input)
ReadErr ==
    /\ pc = "loop" /\ ~eof
    /\ OnReadError
    /\ pc' = "idle" /\ via' = "read" /\ nReadErr' = nReadErr + 1 /\ nErr' = nErr + 1
    /\ UNCHANGED <<buf, namespaces, attributes, st, name, attr, delim, level,
                   sourceVars, tree1, elementVars, c, consumed, newlines, sinceNl, nStart, nEnd,
                   nCloseTags, lastStart, events, extra, tagName, tagAttrs, raw>>

\* A variant of Advance that keeps the column across a newline
AdvanceKeepCol(ch) ==
    IF ch = "\n" THEN line' = line + 1 /\ col' = col
    ELSE col' = col + 1 /\ line' = line

\* parser.rs 223-228: the position after the byte ch
Advance(ch) ==
    IF ch = "\n" THEN line' = line + 1 /\ col' = 0
    ELSE col' = col + 1 /\ line' = line

\* `Ok(1) => buf[0] as char` (parser.rs 220): the source delivers one byte of bs
Consume(bs) ==
    /\ c' = Head(bs)
    /\ pending' = Tail(bs)
    /\ fed' = IF pending = <<>> THEN fed + 1 ELSE fed
    /\ mode' = IF pending = <<>> THEN After(bs, mode) ELSE mode
    /\ UNCHANGED <<lang, eof, tree1, elementVars>>
    /\ Advance(Head(bs))
    /\ consumed' = consumed + 1
    /\ newlines' = IF Head(bs) = "\n" THEN newlines + 1 ELSE newlines
    /\ sinceNl' = IF Head(bs) = "\n" THEN 0 ELSE sinceNl + 1
    /\ nCloseTags' = IF st = "TagOpened" /\ Head(bs) = "/" THEN nCloseTags + 1 ELSE nCloseTags
    \* the tag whose name is resolved by this byte, as the handler finds it
    /\ tagName' = CASE st = "InTag" /\ Head(bs) \in {"/", ">"} -> name
                    [] st = "InTagName" /\ Head(bs) \in {"/", ">"} -> Some(parse_qname(buf))
                    [] st = "InCloseTagName" /\ Head(bs) \in WS \cup {">"} ->
                           Some(parse_qname(buf))
                    [] OTHER -> tagName
    /\ tagAttrs' = CASE st = "InTag" /\ Head(bs) \in {"/", ">"} -> attributes
                     [] st \in {"InTagName", "InCloseTagName"} -> <<>>
                     [] OTHER -> tagAttrs
    \* the bytes of the construct under way: the text since the last construct
    \* ended, or the markup from its '<' on
    /\ raw' = IF st # "OutsideTag" THEN Append(raw, Head(bs))
              ELSE IF Head(bs) = "<" \/ (raw # <<>> /\ raw[1] = "<") THEN <<Head(bs)>>
              ELSE Append(raw, Head(bs))
    /\ UNCHANGED <<nReadErr, extra>>

\* `Ok(None) => continue` (parser.rs 231)
Continue ==
    /\ pc' = "loop"
    /\ UNCHANGED <<has_error, out, via, nStart, nEnd, lastStart, events, nErr>>

\* `Ok(Some(event)) => return Some(Ok(event))` (parser.rs 232-234)
Return(event) ==
    /\ pc' = "idle" /\ out' = OkRes(event) /\ via' = st
    /\ nStart' = IF event.type = "ElementStart" THEN nStart + 1 ELSE nStart
    /\ nEnd' = IF event.type = "ElementEnd" THEN nEnd + 1 ELSE nEnd
    /\ lastStart' = IF event.type = "ElementStart" THEN Some(event) ELSE lastStart
    /\ events' = Append(events, event)
    /\ UNCHANGED <<has_error, nErr>>

\* A variant of Error that forgets `self.has_error = true`
ErrorNotSticky(kind) ==
    /\ pc' = "idle" /\ out' = ErrRes(line', col', kind) /\ via' = st
    /\ nErr' = nErr + 1
    /\ UNCHANGED <<has_error, nStart, nEnd, lastStart, events>>

\* Parser::error (parser.rs 287-293) and `Err(e) => { self.has_error = true; ... }`
\* (parser.rs 235-238): the error carries the position after the byte just read
Error(kind) ==
    /\ pc' = "idle" /\ out' = ErrRes(line', col', kind) /\ via' = st
    /\ has_error' = TRUE
    /\ nErr' = nErr + 1
    /\ UNCHANGED <<nStart, nEnd, lastStart, events>>

\* Element::from_str has returned Ok(root) for a document of "docs" (the
\* first result of handle_event that is not None, element.rs 275); the caller
\* renders the root with to_string (element.rs 106-110) and hands the text to
\* from_str again: a new Parser (parser.rs 169-195) over the rendered bytes
Reparse ==
    /\ lang = "docs" /\ pc = "idle" /\ out.kind = "Ok" /\ nReadErr = 0
    /\ \E rev \in BOOLEAN :
          LET r == FindMap(events, 1, <<>>, rev)
          IN  /\ r.kind = "Ok" /\ r.at = Len(events)
              /\ tree1' = Some(r.elem)
              /\ IF to_string(r.elem, rev).ok
                 THEN pending' = to_string(r.elem, rev).text /\ pc' = "idle"
                 ELSE pending' = <<>> /\ pc' = "panic"
    /\ line' = 1 /\ col' = 0 /\ has_error' = FALSE
    /\ buf' = <<>>
    /\ namespaces' = << (XmlStr :> XmlNsUri) @@ (XmlnsStr :> XmlnsNsUri) >>
    /\ attributes' = <<>>
    /\ st' = "OutsideTag"
    /\ name' = None /\ attr' = None /\ delim' = None
    /\ level' = 0
    /\ lang' = "rendered" /\ mode' = "content" /\ fed' = 0 /\ eof' = FALSE
    /\ out' = Unset /\ c' = ""
    /\ via' = "" /\ consumed' = 0 /\ newlines' = 0 /\ sinceNl' = 0
    /\ nStart' = 0 /\ nEnd' = 0 /\ nCloseTags' = 0 /\ lastStart' = None /\ events' = <<>>
    /\ nErr' = 0 /\ nReadErr' = 0 /\ extra' = 0 /\ tagName' = None /\ tagAttrs' = <<>>
    /\ raw' = <<>>
    /\ UNCHANGED elementVars

-----------------------------------------------------------------------------
(* The character handlers (parser.rs 321-741), each applied to the byte ch *)

\* A variant of outside_tag that hands out the pending text as it was read
outside_tag_raw(ch) ==
    IF ch = "<" /\ buf = <<>>
    THEN st' = "TagOpened" /\ Continue
         /\ UNCHANGED <<buf, namespaces, attributes, name, attr, delim, level>>
    ELSE IF ch = "<"
    THEN /\ st' = "TagOpened" /\ buf' = <<>>
         /\ Return(Characters(buf))
         /\ UNCHANGED <<namespaces, attributes, name, attr, delim, level>>
    ELSE buf' = Append(buf, ch) /\ Continue
         /\ UNCHANGED <<st, namespaces, attributes, name, attr, delim, level>>

\* outside_tag (parser.rs 321-335)
outside_tag(ch) ==
    IF ch = "<" /\ buf = <<>>
    THEN st' = "TagOpened" /\ Continue
         /\ UNCHANGED <<buf, namespaces, attributes, name, attr, delim, level>>
    ELSE IF ch = "<"
    THEN /\ st' = "TagOpened" /\ buf' = <<>>
         /\ IF unescape_owned(buf).ok THEN Return(Characters(unescape_owned(buf).val))
            ELSE Error("InvalidEntity")
         /\ UNCHANGED <<namespaces, attributes, name, attr, delim, level>>
    ELSE buf' = Append(buf, ch) /\ Continue
         /\ UNCHANGED <<st, namespaces, attributes, name, attr, delim, level>>

\* tag_opened (parser.rs 342-353)
tag_opened(ch) ==
    /\ st' = CASE ch = "?" -> "InProcessingInstructions"
               [] ch = "!" -> "InExclamationMark"
               [] ch = "/" -> "InCloseTagName"
               [] OTHER -> "InTagName"
    /\ buf' = IF ch \in {"?", "!", "/"} THEN buf ELSE Append(buf, ch)
    /\ Continue
    /\ UNCHANGED <<namespaces, attributes, name, attr, delim, level>>

\* in_processing_instructions (parser.rs 357-373)
in_processing_instructions(ch) ==
    IF ch = "?"
    THEN level' = 1 /\ buf' = Append(buf, ch) /\ Continue
         /\ UNCHANGED <<st, namespaces, attributes, name, attr, delim>>
    ELSE IF ch = ">" /\ level = 1
    THEN /\ level' = 0 /\ st' = "OutsideTag" /\ buf' = <<>>
         /\ Return(PI(SubSeq(buf, 1, Len(buf) - 1)))
         /\ UNCHANGED <<namespaces, attributes, name, attr, delim>>
    ELSE buf' = Append(buf, ch) /\ Continue
         /\ UNCHANGED <<st, namespaces, attributes, name, attr, delim, level>>

\* in_tag_name (parser.rs 379-414)
in_tag_name(ch) ==
    IF ch \in {"/", ">"}
    THEN LET q == parse_qname(buf)
             r == ResolveTagName(namespaces, q[1])
         IN  /\ buf' = <<>>
             /\ IF ~r.ok
                THEN Error("UnboundNsPrefixInTagName") /\ UNCHANGED <<namespaces, st, name>>
                ELSE /\ namespaces' = Append(namespaces, EmptyMap)
                     /\ st' = IF ch = "/" THEN "ExpectClose" ELSE "OutsideTag"
                     /\ name' = IF ch = "/" THEN Some(q) ELSE name
                     /\ Return(ElementStart(q[2], r.val, q[1], EmptyMap))
             /\ UNCHANGED <<attributes, attr, delim, level>>
    ELSE IF ch \in WS
    THEN /\ namespaces' = Append(namespaces, EmptyMap)
         /\ name' = Some(parse_qname(buf))
         /\ buf' = <<>>
         /\ st' = "InTag"
         /\ Continue
         /\ UNCHANGED <<attributes, attr, delim, level>>
    ELSE buf' = Append(buf, ch) /\ Continue
         /\ UNCHANGED <<st, namespaces, attributes, name, attr, delim, level>>

\* A variant of Pop that leaves the innermost frame of an enclosing element
PopKeepsOne(v) == IF Len(v) <= 2 THEN v ELSE SubSeq(v, 1, Len(v) - 1)

\* Vec::pop: popping an empty Vec leaves it empty
Pop(v) == IF v = <<>> THEN v ELSE SubSeq(v, 1, Len(v) - 1)

\* A variant of in_close_tag_name that ends the element at '>' only
in_close_tag_name_late(ch) ==
    IF ch = ">"
    THEN LET q == parse_qname(buf)
             r == ResolveTagName(namespaces, q[1])
         IN  /\ buf' = <<>>
             /\ IF ~r.ok
                THEN Error("UnboundNsPrefixInTagName") /\ UNCHANGED <<namespaces, st>>
                ELSE /\ namespaces' = Pop(namespaces)
                     /\ st' = "OutsideTag"
                     /\ Return(ElementEnd(q[2], r.val, q[1]))
             /\ UNCHANGED <<attributes, name, attr, delim, level>>
    ELSE IF ch \in WS
    THEN /\ st' = "ExpectSpaceOrClose" /\ Continue
         /\ UNCHANGED <<buf, namespaces, attributes, name, attr, delim, level>>
    ELSE buf' = Append(buf, ch) /\ Continue
         /\ UNCHANGED <<st, namespaces, attributes, name, attr, delim, level>>

\* in_close_tag_name (parser.rs 419-446)
in_close_tag_name(ch) ==
    IF ch \in WS \cup {">"}
    THEN LET q == parse_qname(buf)
             r == ResolveTagName(namespaces, q[1])
         IN  /\ buf' = <<>>
             /\ IF ~r.ok
                THEN Error("UnboundNsPrefixInTagName") /\ UNCHANGED <<namespaces, st>>
                ELSE /\ namespaces' = Pop(namespaces)
                     /\ st' = IF ch = ">" THEN "OutsideTag" ELSE "ExpectSpaceOrClose"
                     /\ Return(ElementEnd(q[2], r.val, q[1]))
             /\ UNCHANGED <<attributes, name, attr, delim, level>>
    ELSE buf' = Append(buf, ch) /\ Continue
         /\ UNCHANGED <<st, namespaces, attributes, name, attr, delim, level>>

\* A failed `expect(...)`: the thread panics and the call never returns
Panic ==
    /\ pc' = "panic"
    /\ UNCHANGED <<has_error, out, via, nStart, nEnd, lastStart, events, nErr>>

\* A variant of in_tag that does not put the taken name back at '/'
in_tag_takes_name(ch) ==
    IF ch \in {"/", ">"}
    THEN /\ attributes' = <<>>
         /\ IF name = None
            THEN Panic /\ UNCHANGED <<st, name>>
            ELSE LET q == Unwrap(name)
                     r == ResolveTagName(namespaces, q[1])
                     m == ResolveAttributes(namespaces, attributes, 1, EmptyMap)
                 IN  IF ~r.ok
                     THEN Error("UnboundNsPrefixInTagName") /\ name' = None /\ UNCHANGED st
                     ELSE IF ~m.ok
                     THEN Error(m.err) /\ name' = None /\ UNCHANGED st
                     ELSE /\ st' = IF ch = "/" THEN "ExpectClose" ELSE "OutsideTag"
                          /\ name' = None
                          /\ Return(ElementStart(q[2], r.val, q[1], m.val))
         /\ UNCHANGED <<buf, namespaces, attr, delim, level>>
    ELSE IF ch \in WS
    THEN Continue /\ UNCHANGED <<buf, namespaces, attributes, st, name, attr, delim, level>>
    ELSE /\ buf' = Append(buf, ch) /\ st' = "InAttrName" /\ Continue
         /\ UNCHANGED <<namespaces, attributes, name, attr, delim, level>>

\* in_tag (parser.rs 452-508)
in_tag(ch) ==
    IF ch \in {"/", ">"}
    THEN /\ attributes' = <<>>
         /\ IF name = None
            THEN Panic /\ UNCHANGED <<st, name>>
            ELSE LET q == Unwrap(name)
                     r == ResolveTagName(namespaces, q[1])
                     m == ResolveAttributes(namespaces, attributes, 1, EmptyMap)
                 IN  IF ~r.ok
                     THEN Error("UnboundNsPrefixInTagName") /\ name' = None /\ UNCHANGED st
                     ELSE IF ~m.ok
                     THEN Error(m.err) /\ name' = None /\ UNCHANGED st
                     ELSE /\ st' = IF ch = "/" THEN "ExpectClose" ELSE "OutsideTag"
                          /\ name' = IF ch = "/" THEN Some(q) ELSE None
                          /\ Return(ElementStart(q[2], r.val, q[1], m.val))
         /\ UNCHANGED <<buf, namespaces, attr, delim, level>>
    ELSE IF ch \in WS
    THEN Continue /\ UNCHANGED <<buf, namespaces, attributes, st, name, attr, delim, level>>
    ELSE /\ buf' = Append(buf, ch) /\ st' = "InAttrName" /\ Continue
         /\ UNCHANGED <<namespaces, attributes, name, attr, delim, level>>

\* in_attr_name (parser.rs 512-524)
in_attr_name(ch) ==
    IF ch = "="
    THEN /\ level' = 0 /\ attr' = Some(parse_qname(buf)) /\ buf' = <<>>
         /\ st' = "ExpectDelimiter" /\ Continue
         /\ UNCHANGED <<namespaces, attributes, name, delim>>
    ELSE IF ch \in WS
    THEN level' = 1 /\ Continue
         /\ UNCHANGED <<buf, namespaces, attributes, st, name, attr, delim>>
    ELSE IF level = 0
    THEN buf' = Append(buf, ch) /\ Continue
         /\ UNCHANGED <<st, namespaces, attributes, name, attr, delim, level>>
    ELSE Error("SpaceInAttributeName")
         /\ UNCHANGED <<buf, st, namespaces, attributes, name, attr, delim, level>>

\* A variant of Declare that records only default-namespace declarations
DeclareDefaultOnly(last, prefix, local, value) ==
    IF prefix = None /\ local = XmlnsStr THEN [k \in DOMAIN last \cup {<<>>} |->
            IF k = <<>> THEN value ELSE last[k]]
    ELSE last

\* The `match prefix { ... }` of in_attr_value (parser.rs 547-555): the
\* innermost frame after the attribute (prefix, local name) = value
Declare(last, prefix, local, value) ==
    IF prefix = None /\ local = XmlnsStr THEN [k \in DOMAIN last \cup {<<>>} |->
            IF k = <<>> THEN value ELSE last[k]]
    ELSE IF prefix = Some(XmlnsStr) THEN [k \in DOMAIN last \cup {local} |->
            IF k = local THEN value ELSE last[k]]
    ELSE last

\* in_attr_value (parser.rs 528-562)
in_attr_value(ch) ==
    IF delim = None
    THEN Panic /\ UNCHANGED <<buf, namespaces, attributes, st, name, attr, delim, level>>
    ELSE IF ch = Unwrap(delim)
    THEN /\ delim' = None /\ st' = "InTag" /\ attr' = None
         /\ IF attr = None
            THEN Panic /\ UNCHANGED <<buf, namespaces, attributes>>
            ELSE LET q == Unwrap(attr)
                     value == unescape_owned(buf)
                 IN  /\ buf' = <<>>
                     /\ IF ~value.ok
                        THEN Error("InvalidEntity") /\ UNCHANGED <<namespaces, attributes>>
                        ELSE IF namespaces = <<>>
                        THEN Panic /\ UNCHANGED <<namespaces, attributes>>
                        ELSE /\ namespaces' =
                                  [namespaces EXCEPT ![Len(namespaces)] =
                                      Declare(@, q[1], q[2], value.val)]
                             /\ attributes' = Append(attributes, <<q[2], q[1], value.val>>)
                             /\ Continue
         /\ UNCHANGED <<name, level>>
    ELSE buf' = Append(buf, ch) /\ Continue
         /\ UNCHANGED <<st, namespaces, attributes, name, attr, delim, level>>

\* expect_delimiter (parser.rs 566-576)
expect_delimiter(ch) ==
    IF ch \in {"\"", "'"}
    THEN delim' = Some(ch) /\ st' = "InAttrValue" /\ Continue
         /\ UNCHANGED <<buf, namespaces, attributes, name, attr, level>>
    ELSE IF ch \in WS
    THEN Continue /\ UNCHANGED <<buf, namespaces, attributes, st, name, attr, delim, level>>
    ELSE Error("UndelimitedAttribute")
         /\ UNCHANGED <<buf, namespaces, attributes, st, name, attr, delim, level>>

\* A variant of expect_close that reports the end without resolving the prefix
expect_close_unresolved(ch) ==
    IF ch = ">"
    THEN /\ st' = "OutsideTag" /\ name' = None
         /\ IF name = None
            THEN Panic /\ UNCHANGED namespaces
            ELSE namespaces' = Pop(namespaces)
                 /\ Return(ElementEnd(Unwrap(name)[2], None, Unwrap(name)[1]))
         /\ UNCHANGED <<buf, attributes, attr, delim, level>>
    ELSE Error("ExpectedTagClose")
         /\ UNCHANGED <<buf, namespaces, attributes, st, name, attr, delim, level>>

\* A variant of expect_close that skips whitespace between '/' and '>'
expect_close_lenient(ch) ==
    IF ch = ">"
    THEN /\ st' = "OutsideTag" /\ name' = None
         /\ IF name = None
            THEN Panic /\ UNCHANGED namespaces
            ELSE LET q == Unwrap(name)
                     r == ResolveTagName(namespaces, q[1])
                 IN  IF ~r.ok
                     THEN Error("UnboundNsPrefixInTagName") /\ UNCHANGED namespaces
                     ELSE namespaces' = Pop(namespaces) /\ Return(ElementEnd(q[2], r.val, q[1]))
         /\ UNCHANGED <<buf, attributes, attr, delim, level>>
    ELSE IF ch \in WS
    THEN Continue /\ UNCHANGED <<buf, namespaces, attributes, st, name, attr, delim, level>>
    ELSE Error("ExpectedTagClose")
         /\ UNCHANGED <<buf, namespaces, attributes, st, name, attr, delim, level>>

\* expect_close (parser.rs 580-600)
expect_close(ch) ==
    IF ch = ">"
    THEN /\ st' = "OutsideTag" /\ name' = None
         /\ IF name = None
            THEN Panic /\ UNCHANGED namespaces
            ELSE LET q == Unwrap(name)
                     r == ResolveTagName(namespaces, q[1])
                 IN  IF ~r.ok
                     THEN Error("UnboundNsPrefixInTagName") /\ UNCHANGED namespaces
                     ELSE namespaces' = Pop(namespaces) /\ Return(ElementEnd(q[2], r.val, q[1]))
         /\ UNCHANGED <<buf, attributes, attr, delim, level>>
    ELSE Error("ExpectedTagClose")
         /\ UNCHANGED <<buf, namespaces, attributes, st, name, attr, delim, level>>

\* A variant of expect_space_or_close that reports the end of the element again
\* when the '>' arrives
expect_space_or_close_emits(ch) ==
    IF ch \in WS
    THEN Continue /\ UNCHANGED <<buf, namespaces, attributes, st, name, attr, delim, level>>
    ELSE IF ch = ">"
    THEN st' = "OutsideTag" /\ Return(ElementEnd(<<>>, None, None))
         /\ UNCHANGED <<buf, namespaces, attributes, name, attr, delim, level>>
    ELSE Error("ExpectedLwsOrTagClose")
         /\ UNCHANGED <<buf, namespaces, attributes, st, name, attr, delim, level>>

\* expect_space_or_close (parser.rs 604-613)
expect_space_or_close(ch) ==
    IF ch \in WS
    THEN Continue /\ UNCHANGED <<buf, namespaces, attributes, st, name, attr, delim, level>>
    ELSE IF ch = ">"
    THEN st' = "OutsideTag" /\ Continue
         /\ UNCHANGED <<buf, namespaces, attributes, name, attr, delim, level>>
    ELSE Error("ExpectedLwsOrTagClose")
         /\ UNCHANGED <<buf, namespaces, attributes, st, name, attr, delim, level>>

\* in_exclamation_mark (parser.rs 619-627)
in_exclamation_mark(ch) ==
    /\ IF ch \in {"-", "[", "D"}
       THEN /\ st' = CASE ch = "-" -> "InCommentOpening"
                       [] ch = "[" -> "InCDATAOpening"
                       [] ch = "D" -> "InDoctype"
            /\ Continue
       ELSE Error("MalformedXml") /\ UNCHANGED st
    /\ UNCHANGED <<buf, namespaces, attributes, name, attr, delim, level>>

\* `level: u8` (parser.rs 161)
U8Max == 255

\* `self.level += 1` on a u8: past U8Max a build with overflow checks panics
\* and a build without them wraps to 0
IncLevel ==
    IF level < U8Max THEN level' = level + 1 /\ Continue
    ELSE \E checked \in BOOLEAN :
            IF checked THEN Panic /\ UNCHANGED level ELSE level' = 0 /\ Continue

\* The number of ']' at the end of b
RECURSIVE TrailingRun(_)
TrailingRun(b) ==
    IF b = <<>> \/ b[Len(b)] # "]" THEN 0 ELSE 1 + TrailingRun(SubSeq(b, 1, Len(b) - 1))

\* A variant of Truncate2 that trims the whole run of ']' at the end
TruncateRun(b) == SubSeq(b, 1, Len(b) - TrailingRun(b))

\* `let len = self.buf.len(); self.buf.truncate(len - 2); self.take_buf()`
\* (parser.rs 657-659, 708-710): the text without its last two characters
Truncate2(b) == SubSeq(b, 1, Len(b) - 2)

\* in_cdata_opening (parser.rs 631-644)
in_cdata_opening(ch) ==
    IF level >= Len(CDATA_PATTERN)
    THEN Panic /\ UNCHANGED <<buf, namespaces, attributes, st, name, attr, delim, level>>
    ELSE IF ch = CDATA_PATTERN[level + 1]
    THEN /\ level' = IF level + 1 = 6 THEN 0 ELSE level + 1
         /\ st' = IF level + 1 = 6 THEN "InCDATA" ELSE st
         /\ Continue
         /\ UNCHANGED <<buf, namespaces, attributes, name, attr, delim>>
    ELSE Error("InvalidCdataStart")
         /\ UNCHANGED <<buf, namespaces, attributes, st, name, attr, delim, level>>

\* in_cdata (parser.rs 648-668)
in_cdata(ch) ==
    IF ch = "]"
    THEN buf' = Append(buf, ch) /\ IncLevel
         /\ UNCHANGED <<st, namespaces, attributes, name, attr, delim>>
    ELSE IF ch = ">" /\ level >= 2
    THEN /\ st' = "OutsideTag" /\ level' = 0
         /\ IF Len(buf) < 2
            THEN Panic /\ UNCHANGED buf
            ELSE buf' = <<>> /\ Return(CDATA(Truncate2(buf)))
         /\ UNCHANGED <<namespaces, attributes, name, attr, delim>>
    ELSE buf' = Append(buf, ch) /\ level' = 0 /\ Continue
         /\ UNCHANGED <<st, namespaces, attributes, name, attr, delim>>

\* in_comment_opening (parser.rs 672-680)
in_comment_opening(ch) ==
    /\ IF ch = "-"
       THEN st' = "InComment1" /\ level' = 0 /\ Continue
       ELSE Error("InvalidCommentStart") /\ UNCHANGED <<st, level>>
    /\ UNCHANGED <<buf, namespaces, attributes, name, attr, delim>>

\* in_comment1 (parser.rs 684-699)
in_comment1(ch) ==
    LET lv == IF ch = "-" THEN level + 1 ELSE 0
    IN  /\ level' = IF lv = 2 THEN 0 ELSE lv
        /\ st' = IF lv = 2 THEN "InComment2" ELSE st
        /\ buf' = Append(buf, ch)
        /\ Continue
        /\ UNCHANGED <<namespaces, attributes, name, attr, delim>>

\* A variant of in_comment2 that takes any other byte after -- as content
in_comment2_lenient(ch) ==
    IF ch # ">"
    THEN buf' = Append(buf, ch) /\ st' = "InComment1" /\ Continue
         /\ UNCHANGED <<namespaces, attributes, name, attr, delim, level>>
    ELSE /\ st' = "OutsideTag"
         /\ IF Len(buf) < 2
            THEN Panic /\ UNCHANGED buf
            ELSE buf' = <<>> /\ Return(Comment(Truncate2(buf)))
         /\ UNCHANGED <<namespaces, attributes, name, attr, delim, level>>

\* in_comment2 (parser.rs 703-713)
in_comment2(ch) ==
    IF ch # ">"
    THEN Error("InvalidCommentContent")
         /\ UNCHANGED <<buf, namespaces, attributes, st, name, attr, delim, level>>
    ELSE /\ st' = "OutsideTag"
         /\ IF Len(buf) < 2
            THEN Panic /\ UNCHANGED buf
            ELSE buf' = <<>> /\ Return(Comment(Truncate2(buf)))
         /\ UNCHANGED <<namespaces, attributes, name, attr, delim, level>>

\* A variant of in_doctype that accumulates the declaration's content
in_doctype_keeps(ch) ==
    /\ IF level <= 5
       THEN IF ch = DOCTYPE_PATTERN[level + 1]
            THEN level' = level + 1 /\ Continue /\ UNCHANGED <<st, buf>>
            ELSE Error("InvalidDoctype") /\ UNCHANGED <<st, level, buf>>
       ELSE IF level = 6
       THEN IF ch \in WS
            THEN level' = level + 1 /\ Continue /\ UNCHANGED <<st, buf>>
            ELSE Error("InvalidDoctype") /\ UNCHANGED <<st, level, buf>>
       ELSE IF ch = ">"
       THEN level' = 0 /\ st' = "OutsideTag" /\ Continue /\ UNCHANGED buf
       ELSE buf' = Append(buf, ch) /\ Continue /\ UNCHANGED <<st, level>>
    /\ UNCHANGED <<namespaces, attributes, name, attr, delim>>

\* in_doctype (parser.rs 717-741)
in_doctype(ch) ==
    /\ IF level <= 5
       THEN IF ch = DOCTYPE_PATTERN[level + 1]
            THEN level' = level + 1 /\ Continue /\ UNCHANGED st
            ELSE Error("InvalidDoctype") /\ UNCHANGED <<st, level>>
       ELSE IF level = 6
       THEN IF ch \in WS
            THEN level' = level + 1 /\ Continue /\ UNCHANGED st
            ELSE Error("InvalidDoctype") /\ UNCHANGED <<st, level>>
       ELSE IF ch = ">"
       THEN level' = 0 /\ st' = "OutsideTag" /\ Continue
       ELSE Continue /\ UNCHANGED <<st, level>>
    /\ UNCHANGED <<buf, namespaces, attributes, name, attr, delim>>

-----------------------------------------------------------------------------
(* One turn of the loop of next(): read a byte, move the position, and hand *)
(* the byte to the handler of the current state (parse_character,          *)
(* parser.rs 295-317)                                                      *)

Step(state, handler(_)) ==
    /\ pc = "loop" /\ st = state
    /\ \E bs \in Avail : Consume(bs) /\ handler(Head(bs))

OutsideTag == Step("OutsideTag", outside_tag)
TagOpened == Step("TagOpened", tag_opened)
InProcessingInstructions == Step("InProcessingInstructions", in_processing_instructions)
InTagName == Step("InTagName", in_tag_name)
InCloseTagName == Step("InCloseTagName", in_close_tag_name)
InTag == Step("InTag", in_tag)
InAttrName == Step("InAttrName", in_attr_name)
InAttrValue == Step("InAttrValue", in_attr_value)
ExpectDelimiter == Step("ExpectDelimiter", expect_delimiter)
ExpectClose == Step("ExpectClose", expect_close)
ExpectSpaceOrClose == Step("ExpectSpaceOrClose", expect_space_or_close)
InExclamationMark == Step("InExclamationMark", in_exclamation_mark)
InCDATAOpening == Step("InCDATAOpening", in_cdata_opening)
InCDATA == Step("InCDATA", in_cdata)
InCommentOpening == Step("InCommentOpening", in_comment_opening)
InComment1 == Step("InComment1", in_comment1)
InComment2 == Step("InComment2", in_comment2)
InDoctype == Step("InDoctype", in_doctype)

Next ==
    \/ Call \/ ReadEof \/ ReadErr
    \/ OutsideTag \/ TagOpened \/ InProcessingInstructions \/ InTagName
    \/ InCloseTagName \/ InTag \/ InAttrName \/ InAttrValue \/ ExpectDelimiter
    \/ ExpectClose \/ ExpectSpaceOrClose \/ InExclamationMark \/ InCDATAOpening
    \/ InCDATA \/ InCommentOpening \/ InComment1 \/ InComment2 \/ InDoctype
    \/ Reparse

Spec == Init /\ [][Next]_vars

\* The caller that pulls events to the end, as `collect()` and the `for`
\* loop of examples/roundtrip.rs do: a call that can be made is made, and
\* a read of the source returns.
SpecPulled == Init /\ [][Next]_vars /\ WF_vars(Next)

-----------------------------------------------------------------------------
(* A caller of the Element API (element.rs): it makes an Element with       *)
(* Element::new, appends children to it, then either iterates over          *)
(* get_children or renders the Element with to_string.  No Parser is read.  *)

QueryNames == {<<"b">>, <<"c">>}
QueryNs == {None, Some(<<"u">>)}

\* The roots the caller makes: <a>, in the namespace u or in none, with an
\* explicit xmlns attribute or without
Roots ==
    { ElementNew(<<"a">>, ns, attrs) :
        ns \in QueryNs, attrs \in {EmptyMap, (<<XmlnsStr, None>> :> <<"u">>)} }

\* <p:b xmlns:p='u'> as parsing builds it
PrefixedChild ==
    NewElement(ElementStart(<<"b">>, Some(<<"u">>), Some(<<"p">>),
                            (<<<<"p">>, Some(XmlnsNsUri)>> :> <<"u">>)), None, FALSE)

\* The elements the caller appends: b, c, b in the namespace u, c holding a b,
\* and p:b with and without a text
Children ==
    { ElementNew(<<"b">>, None, EmptyMap),
      ElementNew(<<"c">>, None, EmptyMap),
      ElementNew(<<"b">>, Some(<<"u">>), EmptyMap),
      tag_stay(ElementNew(<<"c">>, None, EmptyMap), ElementNew(<<"b">>, None, EmptyMap)),
      PrefixedChild,
      text(PrefixedChild, <<"t">>) }

InitElement ==
    /\ line = 1 /\ col = 0 /\ has_error = FALSE
    /\ buf = <<>>
    /\ namespaces = << (XmlStr :> XmlNsUri) @@ (XmlnsStr :> XmlnsNsUri) >>
    /\ attributes = <<>>
    /\ st = "OutsideTag"
    /\ name = None /\ attr = None /\ delim = None
    /\ level = 0
    /\ lang = "rendered" /\ mode = "content" /\ pending = <<>> /\ fed = 0 /\ eof = FALSE
    /\ pc = "idle" /\ out = Unset /\ c = ""
    /\ via = "" /\ consumed = 0 /\ newlines = 0 /\ sinceNl = 0
    /\ nStart = 0 /\ nEnd = 0 /\ nCloseTags = 0 /\ lastStart = None /\ events = <<>>
    /\ nErr = 0 /\ nReadErr = 0 /\ extra = 0 /\ tagName = None /\ tagAttrs = <<>>
    /\ raw = <<>>
    /\ tree1 = None
    /\ element \in {Some(r) : r \in Roots}
    /\ iter = None /\ yielded = <<>> /\ done = None /\ shown = None

Unread == <<parserVars, sourceVars, callVars, histVars, tree1>>

\* element.tag_stay(child) (element.rs 236-240)
Tag ==
    /\ iter = None /\ done = None /\ shown = None
    /\ Len(Unwrap(element).children) < MaxChildren
    /\ \E child \in Children : element' = Some(tag_stay(Unwrap(element), child))
    /\ UNCHANGED <<Unread, iter, yielded, done, shown>>

\* element.text("t") (element.rs 242-246)
Text ==
    /\ iter = None /\ done = None /\ shown = None
    /\ Len(Unwrap(element).children) < MaxChildren
    /\ element' = Some(text(Unwrap(element), <<"t">>))
    /\ UNCHANGED <<Unread, iter, yielded, done, shown>>

\* let it = element.get_children(n, ns) (element.rs 214-224)
GetChildren ==
    /\ shown = None
    /\ \E n \in QueryNames, ns \in QueryNs : iter' = Some(get_children(Unwrap(element), n, ns))
    /\ yielded' = <<>>
    /\ UNCHANGED <<Unread, element, done, shown>>

\* it.next() (element.rs 122-132).  At None the caller drops the iterator; the
\* iteration is recorded in done, with whether it repeats the one before it
ChildNext ==
    /\ iter # None
    /\ LET r == ChildElementsNext(Unwrap(iter))
       IN  IF r.item # None
           THEN /\ iter' = Some(r.iter)
                /\ yielded' = Append(yielded, Unwrap(r.item))
                /\ UNCHANGED done
           ELSE /\ iter' = None
                /\ done' = Some([name |-> r.iter.name, ns |-> r.iter.ns, items |-> yielded,
                                 again |-> /\ done # None
                                           /\ Unwrap(done).name = r.iter.name
                                           /\ Unwrap(done).ns = r.iter.ns])
                /\ UNCHANGED yielded
    /\ UNCHANGED <<Unread, element, shown>>

\* element.to_string() (element.rs 106-110)
Display ==
    /\ iter = None /\ shown = None
    /\ \E rev \in BOOLEAN : shown' = Some(to_string(Unwrap(element), rev))
    /\ UNCHANGED <<Unread, element, iter, yielded, done>>

NextElement == Tag \/ Text \/ GetChildren \/ ChildNext \/ Display

SpecElement == InitElement /\ [][NextElement]_vars

-----------------------------------------------------------------------------
(* A caller that builds an Element and renders it: Element::new, then       *)
(* set_attribute, tag_stay and text in any order, then to_string.           *)

\* The attributes the caller sets: x, in no namespace and in the namespace u
AttributeKeys == {<<<<"x">>, None>>, <<<<"x">>, Some(<<"u">>)>>}

\* element.set_attribute("x", ns, "1") (element.rs 190-197)
SetAttribute ==
    /\ shown = None
    /\ \E k \in AttributeKeys :
          element' = Some(set_attribute(Unwrap(element), k[1], k[2], <<"1">>))
    /\ UNCHANGED <<Unread, iter, yielded, done, shown>>

NextRender == SetAttribute \/ Tag \/ Text \/ Display

SpecRender == InitElement /\ [][NextRender]_vars

-----------------------------------------------------------------------------
(* Properties *)

\* The handler of `state` is handed one of the bytes `chars` in this step
Handles(state, chars) ==
    pc = "loop" /\ st = state /\ consumed' = consumed + 1 /\ c' \in chars

\* C1: once next() has returned an Err, every later call returns None: no
\* further event, no repeated error, and no further byte is read, whatever
\* remains in the source.
C1_ErrorIsTerminal ==
    [][nErr > 0 =>
        /\ pc' = "idle"
        /\ out' \in {out, NoneRes}
        /\ pc = "idle" => out' = NoneRes
        /\ nErr' = nErr /\ nStart' = nStart /\ nEnd' = nEnd
        /\ consumed' = consumed]_vars

\* a lexical error was returned with bytes of the input still unread, and a
\* later call returned None
C1_Witness ==
    /\ nErr = 1 /\ nReadErr = 0 /\ extra = 1
    /\ out = NoneRes /\ via = "has_error"
    /\ pending # <<>>

\* C2: a failed read, in whatever state, makes next() return Err MalformedXml
\* at the current line and column, which the failed read leaves unchanged;
\* every later call returns None.
C2_ReadFailure ==
    [][/\ nReadErr' > nReadErr =>
            /\ out' = ErrRes(line, col, "MalformedXml")
            /\ line' = line /\ col' = col /\ consumed' = consumed
            /\ pc' = "idle"
       /\ nReadErr > 0 =>
            /\ pc' = "idle" /\ out' \in {out, NoneRes}
            /\ pc = "idle" => out' = NoneRes
            /\ nReadErr' = nReadErr]_vars

\* a read failed inside an attribute value, after bytes were consumed, and a
\* later call returned None
C2_Witness ==
    /\ nReadErr = 1 /\ st = "InAttrValue" /\ col > 0
    /\ extra = 1 /\ out = NoneRes /\ via = "has_error"

\* C3: every error carries a 1-based position: line >= 1 and col >= 1.
C3_OneBasedPosition ==
    out.kind = "Err" => out.line >= 1 /\ out.col >= 1

\* C4: one byte is consumed before each state transition; line is 1 plus the
\* newlines consumed and col the bytes consumed since the last newline; an
\* error reports the line and col in force after its offending byte.  (The
\* steps are those of one Parser: Reparse constructs a new one.)
C4_PositionTracking ==
    /\ [](line = 1 + newlines /\ col = sinceNl)
    /\ [](out.kind = "Err" => out.line = 1 + newlines /\ out.col = sinceNl)
    /\ [][tree1' = tree1 =>
            /\ st' # st => consumed' = consumed + 1
            /\ consumed' \in {consumed, consumed + 1}
            /\ (nErr' > nErr /\ nReadErr' = nReadErr) =>
                  consumed' = consumed + 1 /\ out'.line = line' /\ out'.col = col']_vars

\* a lexical error on the second line, after a newline and further bytes
C4_Witness ==
    /\ out.kind = "Err" /\ via \notin {"read", "has_error", "eof"}
    /\ newlines >= 1 /\ sinceNl >= 2
    /\ out.line = 2 /\ out.col = sinceNl

(* Namespace bindings as the properties read them off the stack *)
Holders(nss, p) == {i \in 1..Len(nss) : p \in DOMAIN nss[i]}
NeverBound(nss, p) == Holders(nss, p) = {}
InnermostUri(nss, p) ==
    nss[CHOOSE i \in Holders(nss, p) : \A j \in Holders(nss, p) : j <= i][p]
ExplicitlyUnbound(nss, p) == ~NeverBound(nss, p) /\ InnermostUri(nss, p) = <<>>
Below(nss) == SubSeq(nss, 1, Len(nss) - 1)

\* The namespace the properties expect for a name with this prefix option on nss
Expected(nss, prefix) ==
    LET p == IF prefix = None THEN <<>> ELSE Unwrap(prefix)
    IN  IF NeverBound(nss, p) \/ ExplicitlyUnbound(nss, p) THEN None
        ELSE Some(InnermostUri(nss, p))

(* Raw attributes (local name, prefix option, value) as the properties read them *)
AttrNs(nss, a) == IF a[2] = None THEN None ELSE Expected(nss, a[2])
AttrUnbound(nss, a) == a[2] # None /\ Expected(nss, a[2]) = None
AttrNeverBound(nss, a) == a[2] # None /\ NeverBound(nss, Unwrap(a[2]))
SamePair(nss, a, b) ==
    /\ a[1] = b[1] /\ ~AttrUnbound(nss, a) /\ ~AttrUnbound(nss, b)
    /\ AttrNs(nss, a) = AttrNs(nss, b)
DuplicateAt(nss, attrs, j) == \E i \in 1..(j - 1) : SamePair(nss, attrs[i], attrs[j])
HasDuplicate(nss, attrs) == \E j \in 1..Len(attrs) : DuplicateAt(nss, attrs, j)
\* The first attribute that has an unbound prefix or repeats an earlier one (0: none)
FirstBad(nss, attrs) ==
    LET bad == {j \in 1..Len(attrs) : AttrUnbound(nss, attrs[j]) \/ DuplicateAt(nss, attrs, j)}
    IN  IF bad = {} THEN 0 ELSE CHOOSE j \in bad : \A k \in bad : j <= k
\* The prefix of a tag name is bound, or there is none
NameResolves(nss, q) == q[1] = None \/ Expected(nss, q[1]) # None

\* The prefix p is declared by an attribute xmlns:p='uri' of the raw list attrs
Declares(attrs, p, uri) ==
    \E i \in 1..Len(attrs) : attrs[i] = <<p, Some(XmlnsStr), uri>>

\* The pending start tag q = (prefix, local) uses a prefix that only an
\* xmlns:prefix attribute of the tag itself binds, to the URI uri
SelfDeclared(q, attrs, nss, uri) ==
    /\ q[1] # None /\ uri # <<>>
    /\ Declares(attrs, Unwrap(q[1]), uri)
    /\ NeverBound(Below(nss), Unwrap(q[1]))

C6_OwnNameIgnoresOwnFrame ==
    (pc = "idle" /\ out.kind = "Ok" /\ out.event.type = "ElementStart") =>
        out.event.ns = Expected(Below(namespaces), out.event.prefix)

\* C6 as amended: the name of a start tag is resolved when the tag's closing
\* '/' or '>' is consumed, against the stack including the tag's own frame,
\* which then holds every xmlns declaration of the tag: the declarations are
\* visible to the tag's own name.
C6_OwnNameSeesOwnFrame ==
    (pc = "idle" /\ out.kind = "Ok" /\ out.event.type = "ElementStart") =>
        /\ out.event.ns = Expected(namespaces, out.event.prefix)
        /\ out.event.prefix # None => out.event.ns # None
        /\ \A p \in {<<"p">>, <<"q">>}, uri \in {<<"u">>, <<>>} :
              Declares(tagAttrs, p, uri) =>
                 /\ p \in DOMAIN namespaces[Len(namespaces)]
                 /\ out.event.prefix = Some(p) => out.event.ns = Some(uri) /\ uri # <<>>

\* <p:a xmlns:p='u'> with p bound nowhere below: the ElementStart has ns "u"
C6_Witness ==
    /\ pc = "idle" /\ out.kind = "Ok" /\ out.event.type = "ElementStart" /\ via = "InTag"
    /\ out.event.prefix = Some(<<"p">>) /\ out.event.ns = Some(<<"u">>)
    /\ NeverBound(Below(namespaces), <<"p">>)
    /\ Declares(tagAttrs, <<"p">>, <<"u">>)

\* The closing '/' or '>' of a start tag with attributes is handled in this step
ClosesStartTag == Handles("InTag", {"/", ">"}) /\ name # None

\* The error of this step, at the position of the byte it consumed
ErrHere(kind) == out' = ErrRes(1 + newlines', sinceNl', kind)

\* C7 as stated: two attributes of one start tag with the same resolved (local
\* name, namespace) pair make the tokenizer return DuplicateAttribute at the
\* position of the tag's closing character, with no ElementStart.
C7_DuplicateAlwaysReported ==
    [][(ClosesStartTag /\ HasDuplicate(namespaces, attributes)) =>
          ErrHere("DuplicateAttribute") /\ nStart' = nStart]_vars

\* C7 as amended: such a tag never yields an ElementStart: its closing
\* character yields an error at that character's position.  The error is
\* DuplicateAttribute provided the prefix of the tag's own name is bound and no
\* attribute before the repeated one has an unbound prefix; those checks come
\* first and report their own unbound-prefix error.
C7_DuplicateReportedInTurn ==
    [][(ClosesStartTag /\ HasDuplicate(namespaces, attributes)) =>
          /\ nStart' = nStart /\ out'.kind = "Err"
          /\ out'.line = 1 + newlines' /\ out'.col = sinceNl' /\ c' \in {"/", ">"}
          /\ IF ~NameResolves(namespaces, Unwrap(name))
             THEN out'.err = "UnboundNsPrefixInTagName"
             ELSE IF AttrUnbound(namespaces, attributes[FirstBad(namespaces, attributes)])
             THEN out'.err = "UnboundNsPrefixInAttributeName"
             ELSE ErrHere("DuplicateAttribute")]_vars

\* p:x and q:x with p and q bound to one URI: DuplicateAttribute at the column
\* of the closing character
C7_Witness ==
    /\ out.kind = "Err" /\ out.err = "DuplicateAttribute" /\ via = "InTag"
    /\ out.col = consumed /\ c \in {"/", ">"}
    /\ \E i, j \in 1..Len(tagAttrs) :
          /\ i < j /\ tagAttrs[i][1] = tagAttrs[j][1]
          /\ tagAttrs[i][2] # None /\ tagAttrs[j][2] # None
          /\ tagAttrs[i][2] # tagAttrs[j][2]

\* A tag name is resolved in this step (start, close or empty-element tag)
ResolvesTagName ==
    \/ ClosesStartTag
    \/ Handles("InTagName", {"/", ">"})
    \/ Handles("InCloseTagName", WS \cup {">"})

NoEvent == nStart' = nStart /\ nEnd' = nEnd /\ out'.kind = "Err"

\* C8 as stated: a tag name with a prefix bound in no frame yields
\* UnboundNsPrefixInTagName, an attribute name with such a prefix yields
\* UnboundNsPrefixInAttributeName, both without an event; an unprefixed tag
\* name never yields UnboundNsPrefixInTagName.
C8_UnboundPrefixAlwaysReported ==
    [][/\ (ResolvesTagName /\ AttrNeverBound(namespaces, <<"", Unwrap(tagName')[1], "">>)) =>
            ErrHere("UnboundNsPrefixInTagName") /\ NoEvent
       /\ (ClosesStartTag /\ \E i \in 1..Len(attributes) :
                                 AttrNeverBound(namespaces, attributes[i])) =>
            ErrHere("UnboundNsPrefixInAttributeName") /\ NoEvent
       /\ (ResolvesTagName /\ Unwrap(tagName')[1] = None) =>
            ~ErrHere("UnboundNsPrefixInTagName")]_vars

\* C8 as amended: the attribute error is the one reported unless the tag's own
\* prefix is unbound or an earlier attribute of the tag is a duplicate, which
\* are found first; in every case the tag yields an error and no event.
C8_UnboundPrefixReportedInTurn ==
    [][/\ (ResolvesTagName /\ AttrNeverBound(namespaces, <<"", Unwrap(tagName')[1], "">>)) =>
            ErrHere("UnboundNsPrefixInTagName") /\ NoEvent
       /\ (ClosesStartTag /\ \E i \in 1..Len(attributes) :
                                 AttrNeverBound(namespaces, attributes[i])) =>
            /\ NoEvent
            /\ IF ~NameResolves(namespaces, Unwrap(name))
               THEN ErrHere("UnboundNsPrefixInTagName")
               ELSE IF AttrUnbound(namespaces, attributes[FirstBad(namespaces, attributes)])
               THEN ErrHere("UnboundNsPrefixInAttributeName")
               ELSE ErrHere("DuplicateAttribute")
       /\ (ResolvesTagName /\ Unwrap(tagName')[1] = None) =>
            ~ErrHere("UnboundNsPrefixInTagName")]_vars

\* <a p:x='1'> with p bound in no frame: UnboundNsPrefixInAttributeName
C8_Witness ==
    /\ out.kind = "Err" /\ out.err = "UnboundNsPrefixInAttributeName" /\ via = "InTag"
    /\ nStart = 0 /\ nEnd = 0
    /\ tagName # None /\ Unwrap(tagName)[1] = None
    /\ \E i \in 1..Len(tagAttrs) : AttrNeverBound(namespaces, tagAttrs[i])

\* C9 as stated: a prefixed tag or attribute name whose prefix is explicitly
\* unbound (innermost binding the empty URI) resolves to no namespace without
\* error; only a prefix never declared is an error.
C9_ExplicitUnbindingIsNoError ==
    [][/\ (ResolvesTagName /\ Unwrap(tagName')[1] # None
            /\ ~NeverBound(namespaces, Unwrap(Unwrap(tagName')[1]))) =>
            ~ErrHere("UnboundNsPrefixInTagName")
       /\ (ClosesStartTag /\ \A i \in 1..Len(attributes) :
                                 ~AttrNeverBound(namespaces, attributes[i])) =>
            ~ErrHere("UnboundNsPrefixInAttributeName")]_vars

\* C9 as amended: the lookup gives no namespace for a prefix whose innermost
\* binding is the empty URI, whatever outer frames bind.  For the default
\* (empty) prefix that is no error: an unprefixed tag name gets ns = None.  A
\* prefixed tag or attribute name cannot tell it from a prefix never declared:
\* it yields the same unbound-prefix error.
C9_ExplicitUnbindingOfPrefixIsError ==
    [][/\ (ResolvesTagName /\ Unwrap(tagName')[1] # None
            /\ ExplicitlyUnbound(namespaces, Unwrap(Unwrap(tagName')[1]))) =>
            ErrHere("UnboundNsPrefixInTagName") /\ NoEvent
       /\ (ResolvesTagName /\ Unwrap(tagName')[1] = None
            /\ ExplicitlyUnbound(namespaces, <<>>)
            /\ (st = "InTag" => FirstBad(namespaces, attributes) = 0)) =>
            /\ out'.kind = "Ok" /\ out'.event.ns = None /\ out'.event.prefix = None
            /\ out'.event.type = IF st = "InCloseTagName" THEN "ElementEnd" ELSE "ElementStart"
       /\ (/\ ClosesStartTag /\ NameResolves(namespaces, Unwrap(name))
           /\ FirstBad(namespaces, attributes) > 0
           /\ AttrUnbound(namespaces, attributes[FirstBad(namespaces, attributes)])) =>
            ErrHere("UnboundNsPrefixInAttributeName") /\ NoEvent]_vars

\* <p:a xmlns:p=''> inside an element that binds p to "u": the tag is refused
\* with UnboundNsPrefixInTagName
C9_Witness ==
    /\ out.kind = "Err" /\ out.err = "UnboundNsPrefixInTagName" /\ via = "InTag"
    /\ tagName # None /\ Unwrap(tagName)[1] = Some(<<"p">>)
    /\ ExplicitlyUnbound(namespaces, <<"p">>)
    /\ ~NeverBound(Below(namespaces), <<"p">>)
    /\ InnermostUri(Below(namespaces), <<"p">>) = <<"u">>

\* C10 as stated: at every point the ElementEnd events emitted do not
\* outnumber the ElementStart events emitted.
C10_EndsNeverExceedStarts == nEnd <= nStart

\* C10 as amended: the tokenizer does not match close tags against open
\* elements: every close tag whose name resolves yields an ElementEnd, open
\* element or not.  The ElementEnd events emitted never outnumber the
\* ElementStart events plus the close tags ("</") read.
C10_EndsBoundedByStartsAndCloseTags ==
    /\ nEnd <= nStart + nCloseTags
    /\ (out.kind = "Ok" /\ out.event.type = "ElementEnd") =>
          via \in {"ExpectClose", "InCloseTagName"}
    /\ nCloseTags = 0 => nEnd <= nStart

\* </a> alone: one ElementEnd and no ElementStart
C10_Witness ==
    /\ nEnd = 1 /\ nStart = 0 /\ nCloseTags = 1
    /\ out = OkRes(ElementEnd(<<"a">>, None, None))

-----------------------------------------------------------------------------
(* Markup other than tags, read off the bytes of the construct (raw) *)

IsPrefix(a, b) == Len(a) <= Len(b) /\ SubSeq(b, 1, Len(a)) = a
IsSuffix(a, b) == Len(a) <= Len(b) /\ SubSeq(b, Len(b) - Len(a) + 1, Len(b)) = a
\* The sequence a occurs in b
Occurs(a, b) == \E i \in 1..(Len(b) - Len(a) + 1) : SubSeq(b, i, i + Len(a) - 1) = a
\* b without its first n and its last m elements
Strip(b, n, m) == SubSeq(b, n + 1, Len(b) - m)
\* An event has just been returned
Returned == pc = "idle" /\ out.kind = "Ok"

DoctypeOpen == <<"<", "!", "D", "O", "C", "T", "Y", "P", "E">>
\* raw is a DOCTYPE declaration up to and including its first '>'
DoctypeComplete(r) ==
    /\ Len(r) >= 11 /\ IsPrefix(DoctypeOpen, r) /\ r[10] \in WS
    /\ r[Len(r)] = ">" /\ \A i \in 11..(Len(r) - 1) : r[i] # ">"
\* raw starts with <!D but departs from <!DOCTYPE and one whitespace character
DoctypeMalformed(r) ==
    \/ \E i \in 4..9 : i <= Len(r) /\ r[i] # DoctypeOpen[i]
    \/ Len(r) >= 10 /\ r[10] \notin WS

\* C11: a DOCTYPE declaration (<!DOCTYPE, one whitespace character, anything
\* up to the next '>') yields no event and no error, accumulates nothing that
\* could reach a later Characters event, and leaves the tokenizer in
\* OutsideTag with level 0; <!D not followed by OCTYPE and a whitespace
\* character yields InvalidDoctype.
C11_DoctypeDiscarded ==
    /\ st = "InDoctype" => IsPrefix(<<"<", "!", "D">>, raw) /\ ~DoctypeComplete(raw)
    /\ st = "OutsideTag" => level = 0
    /\ DoctypeComplete(raw) =>
          /\ st = "OutsideTag" /\ level = 0 /\ buf = <<>>
          /\ nErr = nReadErr /\ ~Returned /\ via # "InDoctype"
    /\ (IsPrefix(<<"<", "!", "D">>, raw) /\ ~DoctypeComplete(raw)) =>
          /\ st = "InDoctype" /\ buf = <<>> /\ ~Returned
          /\ IF DoctypeMalformed(raw)
             THEN /\ has_error /\ nErr = 1 /\ nReadErr = 0
                  /\ out.kind = "Err" => out = ErrRes(line, col, "InvalidDoctype")
                  /\ out.kind \in {"Err", "None"}
             ELSE nErr = nReadErr

\* <!DOCTYPE t> and then the end of the input: no event, no error
C11_Witness ==
    /\ DoctypeComplete(raw) /\ Len(raw) >= 12 /\ consumed = Len(raw)
    /\ pc = "idle" /\ out = NoneRes /\ eof /\ events = <<>> /\ nErr = 0

\* <!DOCTYPE directly followed by a character that is no whitespace
C11_WitnessMalformed ==
    /\ IsPrefix(DoctypeOpen, raw) /\ Len(raw) = 10 /\ DoctypeMalformed(raw)
    /\ out = ErrRes(1, 10, "InvalidDoctype")

\* C12: when the source is exhausted, in whatever state the tokenizer is,
\* next() returns None: no error, and no event for the token under way; the
\* parser is left as it was and nothing is emitted afterwards either.
C12_EofEmitsNothing ==
    [][(pc = "loop" /\ eof' /\ consumed' = consumed) =>
          /\ out' = NoneRes /\ pc' = "idle"
          /\ events' = events /\ nErr' = nErr
          /\ parserVars' = parserVars]_vars

\* "<a" and then the end of the input, and "a" outside any tag likewise
C12_Witness ==
    /\ eof /\ pc = "idle" /\ out = NoneRes /\ events = <<>> /\ nErr = 0 /\ ~has_error
    /\ st = "InTagName" /\ buf = <<"a">> /\ raw = <<"<", "a">>

\* Text outside any tag and then the end of the input: the text is dropped
C12_WitnessText ==
    /\ eof /\ pc = "idle" /\ out = NoneRes /\ events = <<>> /\ nErr = 0 /\ ~has_error
    /\ st = "OutsideTag" /\ buf = <<"a">> /\ raw = <<"a">>

LastEvent == events[Len(events)]

\* C13: an empty-element tag yields its ElementStart when the '/' is consumed
\* and, once the very next byte is '>', an ElementEnd as the next event, with
\* the name, ns and prefix of the ElementStart; any other byte after the '/'
\* yields ExpectedTagClose and no ElementEnd.
C13_EmptyElementEnd ==
    /\ (st = "ExpectClose" /\ ~has_error) =>
          /\ c = "/" /\ IsSuffix(<<"/">>, raw) /\ raw[1] = "<"
          /\ events # <<>> /\ LastEvent.type = "ElementStart"
    /\ (Returned /\ out.event.type = "ElementStart" /\ c = "/") => st = "ExpectClose"
    /\ (Returned /\ via = "ExpectClose") =>
          /\ c = ">" /\ IsSuffix(<<"/", ">">>, raw) /\ st = "OutsideTag"
          /\ out.event.type = "ElementEnd" /\ LastEvent = out.event
          /\ Len(events) >= 2
          /\ LET start == events[Len(events) - 1]
             IN  /\ start.type = "ElementStart"
                 /\ start.name = out.event.name
                 /\ start.ns = out.event.ns
                 /\ start.prefix = out.event.prefix
    /\ (out.kind = "Err" /\ via = "ExpectClose") =>
          /\ c # ">" /\ out.err = "ExpectedTagClose"
          /\ LastEvent.type = "ElementStart"
    /\ (pc = "idle" /\ via = "ExpectClose" /\ c = ">") => Returned

\* <p:a xmlns:p='u'/>: ElementStart and ElementEnd of p:a in the namespace u
C13_Witness ==
    /\ Returned /\ via = "ExpectClose" /\ Len(events) = 2
    /\ out.event = ElementEnd(<<"a">>, Some(<<"u">>), Some(<<"p">>))
    /\ events[1].type = "ElementStart" /\ events[1].ns = Some(<<"u">>)
    /\ DOMAIN events[1].attributes # {}

CdataOpen == <<"<", "!", "[", "C", "D", "A", "T", "A", "[">>
CdataClose == <<"]", "]", ">">>
\* raw is a CDATA section up to and including its first ]]>
CdataComplete(r) ==
    /\ Len(r) >= 12 /\ IsPrefix(CdataOpen, r) /\ IsSuffix(CdataClose, r)
    /\ ~Occurs(CdataClose, Strip(r, 9, 1))

\* C14: a CDATA section yields one CDATA event, returned when its first ]]>
\* is complete, whose text is exactly the bytes between <![CDATA[ and that
\* ]]>, kept literally: nothing in it is unescaped or starts another construct.
\* (A run of 256 ']' overflows the u8 counter and refutes it; see C29.)
C14_CdataLiteral ==
    /\ (Returned /\ out.event.type = "CDATA") =>
          /\ via = "InCDATA" /\ CdataComplete(raw)
          /\ out.event.text = Strip(raw, 9, 3)
    /\ (IsPrefix(CdataOpen, raw) /\ Len(raw) >= 12 /\ IsSuffix(CdataClose, raw)) =>
          /\ CdataComplete(raw) /\ st = "OutsideTag" /\ buf = <<>>
          /\ events # <<>> /\ LastEvent = CDATA(Strip(raw, 9, 3))
          /\ nErr = nReadErr
    /\ st = "InCDATA" =>
          /\ IsPrefix(CdataOpen, raw) /\ ~Occurs(CdataClose, Strip(raw, 9, 0))
          /\ buf = Strip(raw, 9, 0)
          /\ ~Returned /\ nErr = nReadErr

\* <![CDATA[&lt;]]>: the text is the four bytes &lt;
C14_Witness ==
    /\ Returned /\ out.event = CDATA(<<"&", "l", "t", ";">>) /\ events = <<out.event>>
    /\ raw = CdataOpen \o <<"&", "l", "t", ";">> \o CdataClose

\* <![CDATA[>]]>: a '>' that ends nothing
C14_WitnessGt ==
    /\ Returned /\ out.event = CDATA(<<">">>) /\ events = <<out.event>>

\* C15 as stated: when a run of n >= 2 ']' followed by '>' closes a CDATA
\* section, all n characters of the run are trimmed off the text of the event.
C15_WholeRunTrimmed ==
    (Returned /\ out.event.type = "CDATA") =>
        out.event.text = Strip(raw, 9, 1 + TrailingRun(Strip(raw, 9, 1)))

\* C15 as amended: when a '>' after a run of n >= 2 ']' closes a CDATA
\* section, exactly the last two ']' are trimmed off the accumulated text; the
\* first n - 2 characters of the run belong to the text of the event.
C15_TwoTrimmed ==
    (Returned /\ out.event.type = "CDATA") =>
        LET n == TrailingRun(Strip(raw, 9, 1))
        IN  /\ IsPrefix(CdataOpen, raw) /\ raw[Len(raw)] = ">" /\ n >= 2
            /\ out.event.text = Strip(raw, 9, 3)
            /\ TrailingRun(out.event.text) = n - 2

\* <![CDATA[]]]>: a run of three, the text is one ']'
C15_Witness ==
    /\ Returned /\ out.event = CDATA(<<"]">>)
    /\ raw = CdataOpen \o <<"]", "]", "]", ">">>

CommentOpen == <<"<", "!", "-", "-">>
Dashes == <<"-", "-">>
\* Where the first -- of x starts (0: nowhere)
FirstDashes(x) ==
    LET at == {i \in 1..(Len(x) - 1) : x[i] = "-" /\ x[i + 1] = "-"}
    IN  IF at = {} THEN 0 ELSE CHOOSE i \in at : \A j \in at : i <= j

\* C16: in a comment the first -- must be followed at once by '>': then one
\* Comment event is returned whose text is the content before that --; any
\* other byte after it, a third '-' included, yields InvalidCommentContent and
\* no Comment event.  A single '-' does not end the comment.
C16_CommentEnd ==
    LET content == Strip(raw, 4, 0)
        i == FirstDashes(content)
    IN  /\ (Returned /\ out.event.type = "Comment") =>
              /\ via = "InComment2" /\ IsPrefix(CommentOpen, raw)
              /\ i > 0 /\ Len(content) = i + 2 /\ content[i + 2] = ">"
              /\ out.event.text = SubSeq(content, 1, i - 1)
        /\ (st = "InComment1" /\ ~has_error) =>
              /\ IsPrefix(CommentOpen, raw) /\ i = 0 /\ buf = content /\ ~Returned
        /\ (IsPrefix(CommentOpen, raw) /\ i > 0) =>
              /\ Len(content) \in {i + 1, i + 2}
              /\ (Len(content) = i + 1 /\ ~has_error) => st = "InComment2" /\ ~Returned
              /\ (Len(content) = i + 2 /\ content[i + 2] = ">") =>
                    /\ st = "OutsideTag" /\ nErr = nReadErr /\ buf = <<>>
                    /\ events # <<>> /\ LastEvent = Comment(SubSeq(content, 1, i - 1))
              /\ (Len(content) = i + 2 /\ content[i + 2] # ">") =>
                    /\ st = "InComment2" /\ has_error /\ nErr = 1 /\ nReadErr = 0
                    /\ out.kind \in {"Err", "None"}
                    /\ out.kind = "Err" => out = ErrRes(line, col, "InvalidCommentContent")

\* <!-----: a third '-' after the first two
C16_Witness ==
    /\ raw = CommentOpen \o <<"-", "-", "-">>
    /\ out = ErrRes(1, 7, "InvalidCommentContent") /\ events = <<>>

\* <!--t-->: the comment t
C16_WitnessComment ==
    /\ Returned /\ out.event = Comment(<<"t">>) /\ raw = CommentOpen \o <<"t", "-", "-", ">">>

\* The text read since the last construct ended
PendingText == IF raw = <<>> \/ raw[1] = "<" THEN <<>> ELSE raw

\* C17: when '<' is consumed in OutsideTag and text is pending, one
\* Characters event with the unescaped text is returned at once, before any
\* event of the construct the '<' starts, and the buffer is emptied; with no
\* text pending no event is returned; a malformed entity yields InvalidEntity
\* instead of the event.  No Characters event has empty text.
C17_CharactersFlush ==
    /\ [](st = "OutsideTag" => buf = PendingText)
    /\ [](\A i \in 1..Len(events) : events[i].type = "Characters" => events[i].text # <<>>)
    /\ []((Returned /\ out.event.type = "Characters") => via = "OutsideTag" /\ c = "<")
    /\ [][Handles("OutsideTag", {"<"}) =>
            /\ buf' = <<>> /\ st' = "TagOpened"
            /\ IF PendingText = <<>>
               THEN pc' = "loop" /\ events' = events /\ nErr' = nErr
               ELSE IF \A i \in 1..Len(PendingText) : PendingText[i] # "&"
               THEN /\ out' = OkRes(Characters(PendingText))
                    /\ events' = Append(events, Characters(PendingText))
               ELSE IF unescape(PendingText).ok
               THEN /\ out' = OkRes(Characters(unescape(PendingText).val))
                    /\ events' = Append(events, out'.event)
               ELSE ErrHere("InvalidEntity") /\ events' = events]_vars

\* t&lt; before a construct: the Characters event t<
C17_Witness ==
    /\ Returned /\ via = "OutsideTag" /\ c = "<" /\ raw = <<"<">>
    /\ out.event = Characters(<<"t", "<">>) /\ events = <<out.event>> /\ buf = <<>>

\* &a before a construct: InvalidEntity
C17_WitnessEntity ==
    /\ out = ErrRes(1, 3, "InvalidEntity") /\ via = "OutsideTag" /\ events = <<>>

PIOpen == <<"<", "?">>
PIClose == <<"?", ">">>

\* C18: a processing instruction ends only at the two bytes ?>, and the text
\* of the PI event is exactly what stands between <? and the first ?>,
\* whatever '?' and '>' the content holds apart from each other.
C18_PiEndsAtQuestionGt ==
    /\ (Returned /\ out.event.type = "PI") =>
          /\ IsPrefix(PIOpen, raw) /\ Len(raw) >= 4 /\ IsSuffix(PIClose, raw)
          /\ ~Occurs(PIClose, Strip(raw, 2, 1))
          /\ out.event.text = Strip(raw, 2, 2)
    /\ (IsPrefix(PIOpen, raw) /\ Len(raw) >= 4 /\ IsSuffix(PIClose, raw)) =>
          st = "OutsideTag" /\ events # <<>> /\ LastEvent.type = "PI"

-----------------------------------------------------------------------------
(* Element::from_str over the events of the text read so far *)

\* The events from the i-th on hold content of a document: text or an element
ContentFrom(i) ==
    \E j \in i..Len(events) : events[j].type \in {"Characters", "ElementStart"}

\* C20: a string whose single root element is followed, after its close, by
\* further content (text or another element) never makes from_str return
\* Ok(root): the result is a structural error.
C20_TrailingContentRejected ==
    \A rev \in BOOLEAN :
        LET r == FindMap(events, 1, <<>>, rev)
        IN  (lang = "docs" /\ r.kind # "None" /\ ContentFrom(r.at + 1)) => r.kind = "Err"

\* What the claimed equality of trees compares: names, namespaces, attributes
\* as a keyed set, children in order
RECURSIVE Bare(_)
Bare(elem) ==
    [name |-> elem.name, ns |-> elem.ns, attributes |-> elem.attributes,
     children |-> [i \in 1..Len(elem.children) |->
                      IF elem.children[i].node = "Element"
                      THEN ElementNode(Bare(elem.children[i].elem))
                      ELSE elem.children[i]]]

\* from_str has its result: the builder's, or the tokenizer's error, its end
\* of input (NoElement) or its abort
Decided ==
    \/ FindMap(events, 1, <<>>, FALSE).kind # "None"
    \/ nErr > 0 \/ pc = "panic"
    \/ (pc = "idle" /\ out = NoneRes)

\* C19: the rendering of the tree parsed from a well-formed text is itself
\* well-formed XML, read to its end, and parses back to a tree equal to the
\* original in names, namespaces, attributes and children in order.
C19_RoundTrip ==
    LET r == FindMap(events, 1, <<>>, FALSE)
    IN  (lang = "rendered" /\ nReadErr = 0 /\ Decided)
            => /\ r.kind = "Ok"
               /\ Bare(r.elem) = Bare(Unwrap(tree1))
               /\ (r.at = Len(events) /\ pc = "idle" /\ out.kind = "Ok") => pending = <<>>

-----------------------------------------------------------------------------
(* The Element API *)

\* The direct children of e that are elements named n in the namespace ns, in
\* child order
IsChildNamed(ch, n, ns) == ch.node = "Element" /\ ch.elem.name = n /\ ch.elem.ns = ns
ChildrenNamed(e, n, ns) ==
    LET sel == SelectSeq(e.children, LAMBDA ch : IsChildNamed(ch, n, ns))
    IN  [i \in 1..Len(sel) |-> sel[i].elem]

\* C21: get_children(name, ns) yields exactly the direct children that are
\* elements with that name and namespace, in child order; invoked again it
\* yields the same sequence; get_child(name, ns) is its first item, or None.
C21_GetChildren ==
    /\ iter # None =>
          IsPrefix(yielded, ChildrenNamed(Unwrap(element), Unwrap(iter).name, Unwrap(iter).ns))
    /\ done # None =>
          Unwrap(done).items = ChildrenNamed(Unwrap(element), Unwrap(done).name, Unwrap(done).ns)
    /\ element # None =>
          \A n \in QueryNames, ns \in QueryNs :
              get_child(Unwrap(element), n, ns) =
                  IF ChildrenNamed(Unwrap(element), n, ns) = <<>> THEN None
                  ELSE Some(ChildrenNamed(Unwrap(element), n, ns)[1])

\* <b/>, a text and <c><b/></c> were appended and the children named b in no
\* namespace were iterated twice: one item each time
C21_Witness ==
    /\ done # None /\ Unwrap(done).again
    /\ Unwrap(done).name = <<"b">> /\ Unwrap(done).ns = None
    /\ Len(Unwrap(done).items) = 1
    /\ \E i, j, k \in 1..Len(Unwrap(element).children) :
          LET ch == Unwrap(element).children
          IN  /\ IsChildNamed(ch[i], <<"b">>, None)
              /\ ch[j].node = "Characters"
              /\ ch[k].node = "Element" /\ ch[k].elem.name = <<"c">>
              /\ ch[k].elem.children # <<>>

\* the test of element.rs 283-294: <a><b/><c/><b/></a> has two children b
C21_WitnessTwo ==
    /\ done # None /\ Unwrap(done).name = <<"b">> /\ Unwrap(done).ns = None
    /\ Len(Unwrap(done).items) = 2
    /\ Len(Unwrap(element).children) = 3
    /\ IsChildNamed(Unwrap(element).children[2], <<"c">>, None)

\* The tags of a rendered text in order: what stands between each '<' and the
\* next '>'
TagsOf(t) ==
    LET lts == {i \in 1..Len(t) : t[i] = "<"}
        lt(k) == CHOOSE i \in lts : Cardinality({j \in lts : j < i}) = k - 1
        gt(i) == CHOOSE j \in (i + 1)..Len(t) :
                     t[j] = ">" /\ \A m \in (i + 1)..(j - 1) : t[m] # ">"
    IN  [k \in 1..Cardinality(lts) |-> SubSeq(t, lt(k) + 1, gt(lt(k)) - 1)]

IsCloseTag(b) == b # <<>> /\ b[1] = "/"
IsSelfClosed(b) == b # <<>> /\ b[Len(b)] = "/"
\* The name token of an opening tag: its bytes before the first ' ' or '/'
NameToken(b) ==
    LET ends == {i \in 1..Len(b) : b[i] \in {" ", "/"}}
    IN  IF ends = {} THEN b
        ELSE SubSeq(b, 1, (CHOOSE i \in ends : \A j \in ends : i <= j) - 1)

\* Every closing tag carries the name token of the innermost tag still open
RECURSIVE Balanced(_, _, _)
Balanced(tags, i, open) ==
    IF i > Len(tags) THEN open = <<>>
    ELSE IF IsCloseTag(tags[i])
    THEN /\ open # <<>>
         /\ open[Len(open)] = Tail(tags[i])
         /\ Balanced(tags, i + 1, SubSeq(open, 1, Len(open) - 1))
    ELSE IF IsSelfClosed(tags[i]) THEN Balanced(tags, i + 1, open)
    ELSE Balanced(tags, i + 1, Append(open, NameToken(tags[i])))

\* The elements of a tree in document order, each with its parent
RECURSIVE Preorder(_, _)
RECURSIVE PreorderOf(_, _)
PreorderOf(e, i) ==
    IF i > Len(e.children) THEN <<>>
    ELSE (IF e.children[i].node = "Element" THEN Preorder(e.children[i].elem, Some(e))
          ELSE <<>>) \o PreorderOf(e, i + 1)
Preorder(e, parent) == <<[elem |-> e, parent |-> parent]>> \o PreorderOf(e, 1)

XmlnsEq == <<" ">> \o XmlnsStr \o <<"=">>
CountOf(a, b) == Cardinality({i \in 1..(Len(b) - Len(a) + 1) : SubSeq(b, i, i + Len(a) - 1) = a})
HasXmlnsAttribute(e) == \E k \in DOMAIN e.attributes : k[1] = XmlnsStr
\* The default namespace an element has to declare: (a) or (b) of the claim
DeclaresDefault(e, parent) ==
    \/ parent = None /\ e.default_ns # None
    \/ parent # None /\ Unwrap(parent).default_ns # e.default_ns

\* C26: in a rendering, an element gets a generated xmlns='...' exactly when
\* it has no explicit xmlns attribute and (a) it has no parent and a default
\* namespace, or (b) its default namespace differs from its parent's; an
\* element without children is self-closed; an element with children has a
\* closing tag with the name token of its opening tag.
C26_RenderedTags ==
    (shown # None /\ Unwrap(shown).ok) =>
        LET tags == TagsOf(Unwrap(shown).text)
            opens == SelectSeq(tags, LAMBDA b : ~IsCloseTag(b))
            pre == Preorder(Unwrap(element), None)
        IN  /\ Len(opens) = Len(pre)
            /\ \A i \in 1..Len(pre) :
                  LET e == pre[i].elem
                      generated == XmlnsEq \o <<"'">> \o OptStr(e.default_ns) \o <<"'">>
                  IN  /\ CountOf(XmlnsEq, opens[i]) =
                            IF HasXmlnsAttribute(e) \/ DeclaresDefault(e, pre[i].parent)
                            THEN 1 ELSE 0
                      /\ (~HasXmlnsAttribute(e) /\ DeclaresDefault(e, pre[i].parent))
                            => Occurs(generated, opens[i])
                      /\ IsSelfClosed(opens[i]) <=> e.children = <<>>
            /\ Len(tags) - Len(opens) = Cardinality({i \in 1..Len(pre) : pre[i].elem.children # <<>>})
            /\ Balanced(tags, 1, <<>>)

\* a root in the namespace u without an xmlns attribute, holding <b/> of no
\* namespace and <p:b xmlns:p='u'>t</p:b>, has been rendered
C26_Witness ==
    /\ shown # None /\ Unwrap(shown).ok
    /\ Unwrap(element).default_ns = Some(<<"u">>) /\ ~HasXmlnsAttribute(Unwrap(element))
    /\ Len(Unwrap(element).children) = 2
    /\ IsChildNamed(Unwrap(element).children[1], <<"b">>, None)
    /\ Unwrap(element).children[2] = ElementNode(text(PrefixedChild, <<"t">>))
    /\ IsSuffix(<<"<", "/", "p", ":", "b", ">", "<", "/", "a", ">">>, Unwrap(shown).text)

-----------------------------------------------------------------------------
(* Namespace frames *)

\* next() has just answered the closing '/' or '>' of a start tag that has
\* attributes or whitespace after its name
AtStartTagClose ==
    pc = "idle" /\ via = "InTag" /\ out.kind \in {"Ok", "Err"} /\ tagName # None

IsPrefixDeclaration(a) == a[2] = Some(XmlnsStr)
IsDefaultDeclaration(a) == a[2] = None /\ a[1] = XmlnsStr
\* The key a declaration binds in its frame
DeclaredKey(a) == IF IsDefaultDeclaration(a) THEN <<>> ELSE a[1]

\* C22: attribute prefixes are resolved when the closing '/' or '>' of the tag
\* is reached, against the frame holding all xmlns declarations of the tag:
\* whether the tag is accepted and the namespace of every attribute depend on
\* the attributes only as a set, so a declaration xmlns:p placed after p:x
\* still binds it.
C22_AttributeOrder ==
    AtStartTagClose =>
        LET top == namespaces[Len(namespaces)]
            idx == 1..Len(tagAttrs)
            declarations == {i \in idx : IsPrefixDeclaration(tagAttrs[i])
                                            \/ IsDefaultDeclaration(tagAttrs[i])}
            sole(i) == \A j \in declarations :
                           DeclaredKey(tagAttrs[j]) = DeclaredKey(tagAttrs[i]) => j = i
        IN  /\ DOMAIN top = {DeclaredKey(tagAttrs[i]) : i \in declarations}
            /\ \A i \in declarations : sole(i) => top[DeclaredKey(tagAttrs[i])] = tagAttrs[i][3]
            /\ out.kind = "Ok" <=>
                  /\ NameResolves(namespaces, Unwrap(tagName))
                  /\ \A i \in idx : ~AttrUnbound(namespaces, tagAttrs[i])
                  /\ ~HasDuplicate(namespaces, tagAttrs)
            /\ out.kind = "Ok" =>
                  /\ out.event.type = "ElementStart"
                  /\ DOMAIN out.event.attributes =
                        {<<tagAttrs[i][1], AttrNs(namespaces, tagAttrs[i])>> : i \in idx}
                  /\ \A i \in idx :
                        out.event.attributes[<<tagAttrs[i][1], AttrNs(namespaces, tagAttrs[i])>>]
                            = tagAttrs[i][3]

\* <a p:x='1' xmlns:p='u'> with p bound nowhere else: accepted, x in u
C22_Witness ==
    /\ AtStartTagClose /\ out.kind = "Ok" /\ Len(namespaces) = 2
    /\ tagAttrs = << <<<<"x">>, Some(<<"p">>), <<"1">>>>, <<<<"p">>, Some(XmlnsStr), <<"u">>>> >>
    /\ <<<<"x">>, Some(<<"u">>)>> \in DOMAIN out.event.attributes

\* The events of type t among the first k events returned
EventsOfType(t, k) == Cardinality({i \in 1..k : events[i].type = t})
\* So far the ElementEnd events never outnumbered the ElementStart events
EndsNeverExceeded ==
    \A k \in 1..Len(events) : EventsOfType("ElementEnd", k) <= EventsOfType("ElementStart", k)

\* C23: namespace frames follow the tags: while the ElementEnd events never
\* outnumber the ElementStart events, after each returned event the stack
\* holds 1 + (ElementStart events) - (ElementEnd events) frames; an
\* empty-element tag leaves the depth it found.
C23_FrameDepth ==
    (Returned /\ EndsNeverExceeded) =>
        /\ Len(namespaces) = 1 + nStart - nEnd
        /\ Len(namespaces) = 1 + EventsOfType("ElementStart", Len(events))
                               - EventsOfType("ElementEnd", Len(events))

\* <a xmlns:p='u' xmlns='u'><a/>: after the ElementEnd of the empty element
\* two frames are left, as before its tag
C23_Witness ==
    /\ Returned /\ EndsNeverExceeded /\ via = "ExpectClose"
    /\ LastEvent.type = "ElementEnd"
    /\ nStart = 2 /\ nEnd = 1 /\ Len(namespaces) = 2

\* Bindings as the events returned so far tell them: the elements open at the
\* n-th event (itself included when it is an ElementStart), and the namespace
\* the innermost declaration of the prefix p among them gives (p = <<>>: the
\* default namespace)
DepthAfter(k) == EventsOfType("ElementStart", k) - EventsOfType("ElementEnd", k)
OpenStarts(n) ==
    {i \in 1..n : /\ events[i].type = "ElementStart"
                  /\ \A k \in i..(n - 1) : DepthAfter(k) >= DepthAfter(i)}
DeclarationKey(p) == IF p = <<>> THEN <<XmlnsStr, None>> ELSE <<p, Some(XmlnsNsUri)>>
BoundAt(n, p) ==
    LET holders == {i \in OpenStarts(n) : DeclarationKey(p) \in DOMAIN events[i].attributes}
    IN  IF holders = {}
        THEN (IF p = XmlStr THEN Some(XmlNsUri)
              ELSE IF p = XmlnsStr THEN Some(XmlnsNsUri) ELSE None)
        ELSE LET inner == CHOOSE i \in holders : \A j \in holders : j <= i
                 uri == events[inner].attributes[DeclarationKey(p)]
             IN  IF uri = <<>> THEN None ELSE Some(uri)

\* C24: a prefix resolves to its innermost binding: a binding (or xmlns='')
\* declared on an inner element shadows an outer one for that element and its
\* descendants; a close tag is resolved with the declarations of the element
\* it closes, so it gets the namespace of its start tag; once the inner
\* element is closed the outer binding is resolved again.
C24_InnermostBinding ==
    (Returned /\ EndsNeverExceeded /\ LastEvent.type \in {"ElementStart", "ElementEnd"}) =>
        LET n == Len(events)
            e == LastEvent
            own == CHOOSE m \in OpenStarts(n) : \A j \in OpenStarts(n) : j <= m
        IN  /\ e.ns = BoundAt(n, IF e.prefix = None THEN <<>> ELSE Unwrap(e.prefix))
            /\ (e.type = "ElementEnd" /\ events[own].name = e.name
                    /\ events[own].prefix = e.prefix) => events[own].ns = e.ns
            /\ (e.type = "ElementStart" /\ via = "InTag") =>
                  \A i \in 1..Len(tagAttrs) :
                      tagAttrs[i][2] # None =>
                          <<tagAttrs[i][1], BoundAt(n, Unwrap(tagAttrs[i][2]))>>
                              \in DOMAIN e.attributes

\* <a xmlns:q='u'><q:a xmlns:q='v'/><a xmlns:p='v' q:x='1'/>: the inner q:a is
\* in v, and after its end the attribute q:x of its sibling is in u again
C24_Witness ==
    /\ Returned /\ EndsNeverExceeded /\ Len(events) = 4
    /\ events[2].type = "ElementStart" /\ events[2].prefix = Some(<<"q">>)
    /\ events[2].ns = Some(<<"v">>)
    /\ events[3].type = "ElementEnd" /\ events[3].ns = Some(<<"v">>)
    /\ events[4].type = "ElementStart"
    /\ <<<<"x">>, Some(<<"u">>)>> \in DOMAIN events[4].attributes

-----------------------------------------------------------------------------
(* The ends of tags *)

\* C25: in a close tag, after the name and at least one whitespace character,
\* a byte other than whitespace or '>' yields ExpectedLwsOrTagClose; in a
\* start tag the byte right after '/' must be '>' (whitespace included): any
\* other byte yields ExpectedTagClose, and that tag gets no ElementEnd.
C25_TagTails ==
    /\ (st = "ExpectSpaceOrClose" /\ c \notin WS) =>
          /\ has_error /\ nErr = 1 /\ nReadErr = 0
          /\ via \in {"ExpectSpaceOrClose", "has_error"}
          /\ via = "ExpectSpaceOrClose" =>
                out = ErrRes(1 + newlines, sinceNl, "ExpectedLwsOrTagClose")
          /\ IsPrefix(<<"<", "/">>, raw) /\ raw[Len(raw)] = c /\ raw[Len(raw) - 1] \in WS
    \* a byte has been read after the '/' and it was not the '>'
    /\ (st = "ExpectClose" /\ (c # "/" \/ IsSuffix(<<"/", "/">>, raw))) =>
          /\ has_error /\ nErr = 1 /\ nReadErr = 0
          /\ via \in {"ExpectClose", "has_error"}
    /\ (pc = "idle" /\ via = "ExpectClose" /\ out.kind \in {"Ok", "Err"}) =>
          /\ raw[Len(raw)] = c /\ raw[Len(raw) - 1] = "/"
          /\ IF c = ">"
             THEN \/ out.kind = "Ok" /\ out.event.type = "ElementEnd"
                  \/ out.kind = "Err" /\ out.err = "UnboundNsPrefixInTagName"
             ELSE /\ out = ErrRes(1 + newlines, sinceNl, "ExpectedTagClose")
                  /\ LastEvent.type = "ElementStart"
                  /\ has_error

\* </p:a followed by whitespace and a byte that is neither whitespace nor '>'
C25_Witness ==
    /\ st = "ExpectSpaceOrClose" /\ c \notin WS /\ via = "ExpectSpaceOrClose"
    /\ out.kind = "Err" /\ out.err = "ExpectedLwsOrTagClose"

\* <a/ followed by a blank: ExpectedTagClose after the ElementStart
C25_WitnessStartTag ==
    /\ pc = "idle" /\ via = "ExpectClose" /\ c = " "
    /\ out.kind = "Err" /\ out.err = "ExpectedTagClose"
    /\ nStart = 1 /\ nEnd = 0

-----------------------------------------------------------------------------
(* The root frame *)

\* C27: the frame seeded by Parser::new is never popped: the stack always
\* holds it, whatever the input (more close tags than open tags included), so
\* xml and xmlns resolve unless the document rebinds them.
C27_RootFrameKept ==
    /\ Len(namespaces) >= 1
    /\ XmlStr \in DOMAIN namespaces[1] /\ namespaces[1][XmlStr] = XmlNsUri
    /\ XmlnsStr \in DOMAIN namespaces[1] /\ namespaces[1][XmlnsStr] = XmlnsNsUri

-----------------------------------------------------------------------------
(* The end of an element *)

\* The qualified name an event carries, as it stands in the text
QName(e) == IF e.prefix = None THEN e.name ELSE Unwrap(e.prefix) \o <<":">> \o e.name
\* The name of the close tag under way: what stands between "</" and the
\* first whitespace or '>'
CloseTagName ==
    LET ends == {i \in 3..Len(raw) : raw[i] \in WS \cup {">"}}
    IN  IF ends = {} THEN SubSeq(raw, 3, Len(raw))
        ELSE SubSeq(raw, 3, (CHOOSE i \in ends : \A j \in ends : i <= j) - 1)

\* C28 as stated: an ElementEnd is emitted only for a close tag that is
\* complete, after its terminating '>' has been consumed.
C28_EndAtTagEnd ==
    (Returned /\ LastEvent.type = "ElementEnd") => c = ">"

\* C28 as amended: the ElementEnd of a close tag is emitted, and its frame
\* popped, at the byte that ends its name: the first whitespace or '>' after
\* a name that resolves.  A close tag rejected later with
\* ExpectedLwsOrTagClose, or cut off after that whitespace, has emitted its
\* ElementEnd and popped its frame; a close tag cut off within its name has
\* emitted none and popped nothing.
C28_EndAtNameEnd ==
    /\ (Returned /\ LastEvent.type = "ElementEnd") =>
          \/ via = "ExpectClose" /\ c = ">"
          \/ via = "InCloseTagName" /\ c \in WS \cup {">"}
    /\ st = "ExpectSpaceOrClose" =>
          /\ events # <<>> /\ LastEvent.type = "ElementEnd"
          /\ IsPrefix(<<"<", "/">>, raw) /\ QName(LastEvent) = CloseTagName
          /\ nEnd >= 1
    /\ (st \in {"InCloseTagName", "ExpectSpaceOrClose"} /\ EndsNeverExceeded) =>
          Len(namespaces) = 1 + nStart - nEnd

\* <a xmlns:p='u' xmlns='u'></p:a x: the ElementEnd of p:a, then
\* ExpectedLwsOrTagClose at x, with the frame of the element popped
C28_Witness ==
    /\ st = "ExpectSpaceOrClose" /\ out.kind = "Err" /\ out.err = "ExpectedLwsOrTagClose"
    /\ nStart = 1 /\ nEnd = 1 /\ Len(namespaces) = 1
    /\ LastEvent.type = "ElementEnd" /\ LastEvent.prefix = Some(<<"p">>)

-----------------------------------------------------------------------------
(* The counter of ']' within a CDATA section *)

\* The bytes of the CDATA section under way, after "<![CDATA["
SectionBytes == SubSeq(raw, Len(CDATA_PATTERN) + 4, Len(raw))

\* C29: within a CDATA section the counter never overflows: after every byte
\* it is the length of the run of ']' that ends the section's bytes, however
\* long the run, so a '>' after a run of two or more ']' closes the section.
C29_LevelCountsRun ==
    (st = "InCDATA" /\ IsPrefix(<<"<", "!", "[">> \o CDATA_PATTERN, raw)) =>
        /\ pc # "panic"
        /\ level = TrailingRun(SectionBytes)
        /\ (c = ">" /\ nReadErr = 0 /\ Len(SectionBytes) >= 1) =>
              TrailingRun(SubSeq(SectionBytes, 1, Len(SectionBytes) - 1)) < 2

-----------------------------------------------------------------------------
(* Termination *)

\* next() has returned None
Drained == pc = "idle" /\ out.kind = "None"
\* Element::to_string aborted before the second Parser read a byte
RenderAborted == lang = "rendered" /\ pc = "panic" /\ consumed = 0

\* C30: pulling events terminates: every loop step consumes one byte and
\* emits at most one event, so there are at most as many events as bytes
\* consumed, and a caller that keeps pulling is eventually handed None.
C30_PullingTerminates ==
    /\ [](Len(events) <= consumed)
    /\ [][pc = "loop" /\ pc' = "loop" => consumed' = consumed + 1 /\ events' = events]_vars
    /\ [][Len(events') > Len(events) => Len(events') = Len(events) + 1 /\ consumed' = consumed + 1]_vars
    /\ <>(Drained \/ RenderAborted)

\* What remains of it: pulling ends with None unless a call of next() aborts
C30_TerminatesOrAborts ==
    <>(Drained \/ pc = "panic")

-----------------------------------------------------------------------------
(* Rendering of trees made through the public API *)

\* Every element of the tree is as Element::new makes it: its default
\* namespace is its namespace and its prefixes are those of xml and xmlns
RECURSIVE BuiltByApi(_)
BuiltByApi(e) ==
    /\ e.default_ns = e.ns /\ e.prefixes = SeedPrefixes
    /\ \A i \in 1..Len(e.children) :
          e.children[i].node = "Element" => BuiltByApi(e.children[i].elem)

\* C31: rendering a tree built with Element::new, set_attribute, tag_stay
\* and text alone completes: "No namespace prefix bound" is never met.
C31_RenderCompletes ==
    (shown # None /\ BuiltByApi(Unwrap(element))) => Unwrap(shown).ok

-----------------------------------------------------------------------------
(* The internal invariants of the tokenizer *)

\* The states of a start tag after its name
AfterTagName == {"InTag", "InAttrName", "ExpectDelimiter", "InAttrValue"}

\* C32: no `expect`, pattern index or truncation of the tokenizer aborts:
\* while a start tag is read after its name, and when ExpectClose awaits
\* '>', the element name is set; in InAttrValue the delimiter and the
\* attribute name are set and the namespace stack is not empty; the counter
\* is 0 on entry to InCDATAOpening and InDoctype and counts the bytes of the
\* pattern matched, so it indexes the pattern within 0..5; the buffer holds
\* the two bytes truncated when a comment or a CDATA section closes.  (The
\* one abort inside next() is the overflow of the counter of ']' in
\* in_cdata, which is arithmetic and guards no internal invariant.)
C32_InternalInvariants ==
    /\ pc = "panic" => (st = "InCDATA" /\ c = "]" /\ level = U8Max) \/ RenderAborted
    /\ (st \in AfterTagName \cup {"ExpectClose"} /\ ~has_error) => name # None
    /\ st = "InAttrValue" => delim # None /\ attr # None /\ namespaces # <<>>
    /\ st = "InExclamationMark" => level = 0
    /\ (st = "InCDATAOpening" /\ ~has_error) =>
          level = Len(raw) - 3 /\ level < Len(CDATA_PATTERN)
    /\ (st = "InDoctype" /\ ~has_error /\ level <= 6) => level = Len(raw) - 3
    /\ st = "InComment2" => Len(buf) >= 2
    /\ st = "InCDATA" => level <= Len(buf)

\* the closing delimiter of an attribute value has been handled in a start
\* tag read after a close tag at top level popped the frame of Parser::new:
\* the stack holds the frame of the tag alone
C32_Witness ==
    /\ pc = "loop" /\ st = "InTag" /\ c = "'" /\ attributes # <<>>
    /\ Len(namespaces) = 1 /\ nEnd > nStart /\ name # None

\* <![CDATA[ is being matched after a processing instruction ended
C32_WitnessCounter ==
    /\ st = "InCDATAOpening" /\ level = 3 /\ ~has_error
    /\ events # <<>> /\ LastEvent.type = "PI"

\* a comment has ended
C32_WitnessTruncate ==
    Returned /\ LastEvent.type = "Comment" /\ via = "InComment2"

====
